---- MODULE Spec2Model ----
(***************************************************************************)
(* OsEID card_os/myeid_emu.c: the MyEID command processor.                 *)
(*                                                                         *)
(* Spec     the session: a command header arrives, the handler for its INS *)
(*          runs to completion (reading the command body itself), the      *)
(*          status word is returned.                                       *)
(* SpecMse  security_env_set_reset applied to one received MANAGE SECURITY *)
(*          ENVIRONMENT command whose body is kept in the state, from any  *)
(*          previous security environment.                                 *)
(***************************************************************************)
EXTENDS Integers, Sequences, FiniteSets, TLC

VARIABLES
  sec_env_valid,  \* uint8_t sec_env_valid: bits 0..3 operation, bit 7 IV flag
  sign_algo,      \* uint8_t sign_algo
  key_file_id,    \* uint16_t key_file_id
  selected,       \* fs_get_selected(): id of the currently selected file
  r_flag,         \* r->flag
  r_len,          \* r->len
  pc,             \* "idle": waiting for a header, "cmd": handler entered
  message,        \* the 5 header bytes of the command being handled
  body,           \* message[5..] as left by read_command_data (SpecMse)
  stale,          \* message bytes that follow the body (older contents)
  last,           \* what ran last; INS, P1, P2 of a command that was handled
  sw,             \* status returned by the last handler
  rd,             \* the call of read_command_data by the last handler
  kern,           \* arithmetic kernel the last handler invoked
  crdo,           \* the CRDO loop of the last SET: tags parsed, loop ended
  mbuf,           \* the message buffer, byte by byte (SpecPso)
  r_data,         \* r->data, byte by byte (SpecPso)
  cin,            \* the bytes decipher () was given as the ciphertext
  kin,            \* the bytes the kernel was given as its input
  kret,           \* what the kernel returned: "none", "fail" or "ok"
  kout,           \* the block the RSA kernel left in r->data
  part1,          \* the fragment of the 0x81 command that set R_TMP
  kkey,           \* the key bytes des_run / aes_run was given
  parts,          \* the key parts the selected file holds, by part type
  wlog            \* the part types fs_key_write_part was called with

vars == << sec_env_valid, sign_algo, key_file_id, selected, r_flag, r_len,
           pc, message, body, stale, last, sw, rd, kern, crdo,
           mbuf, r_data, cin, kin, kret, kout, part1, kkey, parts, wlog >>

env  == << sec_env_valid, sign_algo, key_file_id >>
resp == << r_flag, r_len >>
bufs == << mbuf, r_data, cin, kin, kret, kout, part1, kkey >>
fsv == << parts, wlog >>

----------------------------------------------------------------------------
(* Bounds of the model *)

\* CRDOs in the body of a MANAGE SECURITY ENVIRONMENT command of SpecMse
MaxCrdo == 3

----------------------------------------------------------------------------
(* Program constants *)

SENV_SIGN == 1
SENV_DECRYPT == 2
SENV_ENCRYPT == 3
SENV_ECDH == 4
SENV_INIT_VECTOR == 128
SENV_OP_MASK == 15

\* multi precision size of the build; 66 enables secp521r1
MP_BYTES == 66
L_ECDH_OFFSET == 110

\* status words (iso7816.h), decimal value of the hexadecimal name
S_RET_OK == 36864
S0x6100 == 24832
S0x6700 == 26368
S0x6981 == 27009
S0x6984 == 27012
S0x6985 == 27013
S0x6a80 == 27264
S0x6a81 == 27265
S0x6a86 == 27270
S0x6a87 == 27271
S0x6a82 == 27266
S0x6a88 == 27272

\* read_command_data: not called, returned 0, returned an error
RD_NONE == "none"
RD_OK == "ok"
RD_ERR == "err"

R_NO_DATA == "R_NO_DATA"
R_RESP_READY == "R_RESP_READY"
R_TMP == "R_TMP"

INS_MSE == 34
INS_PSO == 42
INS_GA == 134
INS_GK == 70
INS_GD == 202
INS_PD == 218
INS_AA == 68

----------------------------------------------------------------------------
(* Bit operations on bytes *)

\* x & 15
OpOf(x) == x % 16

\* x | 0x80
OrIv(x) == IF x >= 128 THEN x ELSE x + 128

\* message[k] for a C index k into the bytes that follow the header
At(buf, k) == buf[k - 4]

\* the header bytes
M_CLASS(m) == m[1]
M_CMD(m) == m[2]
M_P1(m) == m[3]
M_P2(m) == m[4]
M_LC(m) == m[5]

----------------------------------------------------------------------------
(* MANAGE SECURITY ENVIRONMENT: security_env_set_reset *)

\* variant: the switch has no default branch
AlgoAccepted_NoDefault(v) == TRUE

\* the algorithm references the switch on the value of tag 0x80 accepts
AlgoAccepted(v) == v \in {0, 2, 18, 4}

\* flag |= b, for a flag of two bits
FlagOr(flag, b) ==
  IF b = 1 THEN (IF flag % 2 = 1 THEN flag ELSE flag + 1)
  ELSE (IF flag >= 2 THEN flag ELSE flag + 2)

\* message[5 + i] << 8 | message[5 + i + 1]
KeyId(hi, lo) == hi * 256 + lo

\* The loop over the CRDOs of the body: i is the loop index at the loop
\* test, st the variables the loop works on.  The result has sw = 0 when the
\* loop ran to its end, otherwise the status returned from inside the loop.
\* seen lists the tags the loop parsed.
RECURSIVE crdo_walk(_, _, _, _)
crdo_walk(m, buf, i, st) ==
  IF i >= M_LC(m) THEN st
  ELSE
    LET tag == At(buf, 5 + i)
        taglen == At(buf, 5 + i + 1)
        v == i + 2
        nxt == (v + taglen) % 65536
        st0 == [st EXCEPT !.seen = Append(@, tag)]
    IN
    IF tag = 128 THEN
      LET st1 == [st0 EXCEPT !.flag = FlagOr(@, 1)] IN
      IF taglen # 1 THEN [st1 EXCEPT !.sw = S0x6a81]
      ELSE IF ~AlgoAccepted(At(buf, 5 + v)) THEN [st1 EXCEPT !.sw = S0x6a81]
      ELSE crdo_walk(m, buf, nxt, [st1 EXCEPT !.sign_algo = At(buf, 5 + v)])
    ELSE IF tag = 129 THEN
      LET st1 == [st0 EXCEPT !.flag = FlagOr(@, 2)] IN
      IF taglen # 2 THEN [st1 EXCEPT !.sw = S0x6a81]
      ELSE crdo_walk(m, buf, nxt,
             [st1 EXCEPT !.key_file_id =
                           KeyId(At(buf, 5 + v), At(buf, 5 + v + 1))])
    ELSE IF tag = 131 \/ tag = 132 THEN
      IF taglen # 1 THEN [st0 EXCEPT !.sw = S0x6a81]
      ELSE IF At(buf, 5 + v) # 0 THEN [st0 EXCEPT !.sw = S0x6a81]
      ELSE crdo_walk(m, buf, nxt, st0)
    ELSE IF tag = 135 THEN
      crdo_walk(m, buf, nxt,
                [st0 EXCEPT !.sec_env_valid = OrIv(@)])
    ELSE [st0 EXCEPT !.sw = S0x6a80]

\* variant: the test of P1 under P2 = 0xb8 is inverted
SenvOfP_P1Inverted(p1, p2) ==
  IF p2 = 182 THEN SENV_SIGN
  ELSE IF p2 = 184 THEN (IF p1 = 129 THEN SENV_DECRYPT ELSE SENV_ENCRYPT)
  ELSE IF p2 = 164 THEN SENV_ECDH
  ELSE 0

\* The operation the P1/P2 of a SET selects, 0 when P2 is not known
SenvOfP(p1, p2) ==
  IF p2 = 182 THEN SENV_SIGN
  ELSE IF p2 = 184 THEN (IF p1 = 129 THEN SENV_ENCRYPT ELSE SENV_DECRYPT)
  ELSE IF p2 = 164 THEN SENV_ECDH
  ELSE 0

\* variant: one of the two required tags is enough
AllEnvPresent_Any(flag) == flag # 0

\* the test behind the loop: both tag 0x80 and tag 0x81 were met
AllEnvPresent(flag) == flag = 3

\* variant: RESTORE does not look at LC
RestoreStatus_AnyLc(lc) == S_RET_OK

\* RESTORE (P1 = 0xF3): the status for a command with this LC
RestoreStatus(lc) == IF lc # 0 THEN S0x6a87 ELSE S_RET_OK

\* The whole function for a non null message: m the header, buf the bytes
\* behind the header once read_command_data has run, ioerr its result,
\* sa and kf the sign_algo and key_file_id at entry.
security_env_set_reset(m, buf, ioerr, sa, kf) ==
  LET p1 == IF M_P1(m) = 164 THEN 65 ELSE M_P1(m)
      p2 == IF M_P1(m) = 164 THEN 164 ELSE M_P2(m)
      st0 == [sw |-> 0, sec_env_valid |-> 0, sign_algo |-> sa,
              key_file_id |-> kf, flag |-> 0, rd |-> RD_NONE,
              seen |-> << >>, walked |-> FALSE,
              m |-> [m EXCEPT ![3] = p1, ![4] = p2]]
  IN
  IF M_P1(m) = 243 THEN [st0 EXCEPT !.sw = RestoreStatus(M_LC(m))]
  ELSE IF p1 = 65 \/ p1 = 129 THEN
    LET st1 == [st0 EXCEPT !.rd = IF M_LC(m) = 0 THEN RD_NONE
                                  ELSE IF ioerr THEN RD_ERR ELSE RD_OK]
    IN
    IF M_LC(m) # 0 /\ ioerr THEN [st1 EXCEPT !.sw = S0x6984]
    ELSE IF SenvOfP(p1, p2) = 0 THEN [st1 EXCEPT !.sw = S0x6a81]
    ELSE
      LET w == crdo_walk(m, buf, 0,
                 [st1 EXCEPT !.sec_env_valid = SenvOfP(p1, p2)])
      IN
      IF w.sw # 0 THEN w
      ELSE IF ~AllEnvPresent(w.flag)
        THEN [w EXCEPT !.sec_env_valid = 0, !.sw = S0x6a81, !.walked = TRUE]
        ELSE [w EXCEPT !.sw = S_RET_OK, !.walked = TRUE]
  ELSE [st0 EXCEPT !.sw = S0x6a81]

----------------------------------------------------------------------------
(* The file system the module reads: three key files *)

\* file ids 0x4401, 0x4501, 0x4601
FILE_RSA == KeyId(68, 1)
FILE_EC == KeyId(69, 1)
FILE_AES == KeyId(70, 1)
\* 0x4402 (RSA 2048) and 0x4602 (DES), used by SpecPso
FILE_RSA2K == KeyId(68, 2)
FILE_DES == KeyId(70, 2)
\* 0x4603 .. 0x4606: DES key files with a key of 7, 16, 24 and 10 bytes
FILE_DES7 == KeyId(70, 3)
FILE_DES16 == KeyId(70, 4)
FILE_DES24 == KeyId(70, 5)
FILE_DES10 == KeyId(70, 6)
\* 0x4502 .. 0x4506: EC key files for prime256v1, secp384r1, secp521r1,
\* secp256k1 and a file with a scalar of 28 bytes
FILE_EC256 == KeyId(69, 2)
FILE_EC384 == KeyId(69, 3)
FILE_EC521 == KeyId(69, 4)
FILE_K256 == KeyId(69, 5)
FILE_EC224 == KeyId(69, 6)
EcFiles == {FILE_EC, FILE_EC256, FILE_EC384, FILE_EC521, FILE_K256, FILE_EC224}
DesFiles == {FILE_DES, FILE_DES7, FILE_DES16, FILE_DES24, FILE_DES10}

FileIds == {FILE_RSA, FILE_EC, FILE_AES}

\* key files for GENERATE KEY: the type and the size in bits of each
GenTable ==
  << <<17, 512>>, <<17, 576>>, <<17, 1024>>, <<17, 1984>>, <<17, 2048>>,
     <<17, 448>>, <<17, 2112>>, <<17, 520>>, <<17, 0>>,
     <<34, 192>>, <<34, 256>>, <<34, 384>>, <<34, 521>>, <<34, 224>>,
     <<34, 200>>, <<34, 512>>, <<35, 256>>, <<35, 192>>, <<41, 256>>,
     <<25, 192>>, <<25, 100>>, <<41, 64>>, <<1, 256>> >>

\* the file of the n-th entry of GenTable
GenFile(n) == KeyId(71, n)
GenFiles == { GenFile(n) : n \in 1 .. Len(GenTable) }

\* the part types of a key file
PartTypes ==
  { "KEY_RSA_p", "KEY_RSA_q", "KEY_RSA_dP", "KEY_RSA_dQ", "KEY_RSA_qInv",
    "KEY_RSA_MOD", "KEY_RSA_MOD_p1", "KEY_RSA_MOD_p2", "KEY_RSA_EXP_PUB",
    "KEY_EC_PRIVATE", "KEY_EC_PUBLIC", "KEY_RSA_EXP", "KEY_RSA_EXP_p1",
    "KEY_RSA_EXP_p2", "0xA0" }

\* a key file without any part
NoParts == [t \in PartTypes |-> << >>]

\* fs_get_file_type ()
fs_get_file_type(f) ==
  IF f \in GenFiles THEN GenTable[f % 256][1]
  ELSE IF f \in {FILE_RSA, FILE_RSA2K} THEN 17
  ELSE IF f = FILE_K256 THEN 35 ELSE IF f \in EcFiles THEN 34
  ELSE IF f = FILE_AES THEN 41 ELSE IF f \in DesFiles THEN 25 ELSE 0

\* fs_get_file_size (): the size in bits a key file was created with
fs_get_file_size(f) ==
  IF f \in GenFiles THEN GenTable[f % 256][2]
  ELSE IF f = FILE_RSA THEN 512
  ELSE IF f = FILE_RSA2K THEN 2048
  ELSE IF f = FILE_EC THEN 192
  ELSE 0

\* fs_key_read_part (NULL, id): the length of a key part, 0 when the
\* selected file has no such part
fs_key_read_part(f, id) ==
  IF f = FILE_RSA /\ id = "KEY_RSA_p" THEN 32
  ELSE IF f = FILE_RSA2K /\ id = "KEY_RSA_p" THEN 128
  ELSE IF f = FILE_EC /\ id = "KEY_EC_PRIVATE" THEN 24
  ELSE IF f \in {FILE_EC256, FILE_K256} /\ id = "KEY_EC_PRIVATE" THEN 32
  ELSE IF f = FILE_EC384 /\ id = "KEY_EC_PRIVATE" THEN 48
  ELSE IF f = FILE_EC521 /\ id = "KEY_EC_PRIVATE" THEN 66
  ELSE IF f = FILE_EC224 /\ id = "KEY_EC_PRIVATE" THEN 28
  ELSE IF f = FILE_AES /\ id = "0xA0" THEN 16
  ELSE IF f = FILE_DES /\ id = "0xA0" THEN 8
  ELSE IF f = FILE_DES7 /\ id = "0xA0" THEN 7
  ELSE IF f = FILE_DES16 /\ id = "0xA0" THEN 16
  ELSE IF f = FILE_DES24 /\ id = "0xA0" THEN 24
  ELSE IF f = FILE_DES10 /\ id = "0xA0" THEN 10
  ELSE 0

\* fs_key_read_part (buffer, 0xa0): the bytes of the symmetric key
fs_key_data(f) ==
  [i \in 1 .. fs_key_read_part(f, "0xA0") |-> 160 + i] \o << >>

----------------------------------------------------------------------------
(* Response staging *)

\* resp_ready (r, len): len is an uint8_t
resp_ready(len) ==
  [sw |-> S0x6100, r_flag |-> R_RESP_READY, r_len |-> len % 256]

\* variant: every return marks the response ready
Ret_Ready(status, rf, rl) ==
  [sw |-> status, r_flag |-> R_RESP_READY, r_len |-> rl]

\* a return that leaves the response as it is
Ret(status, rf, rl) == [sw |-> status, r_flag |-> rf, r_len |-> rl]

----------------------------------------------------------------------------
(* RSA: the length checks and the kernel call of rsa_raw *)

\* variant: raw data of any length goes to the kernel
rsa_raw_AnyLen(len, flag, f, kfail) ==
  LET part_size == (fs_key_read_part(f, "KEY_RSA_p") * 2) % 65536
      none == [size |-> 0, kern |-> "none"]
      calc == IF kfail THEN [size |-> 0, kern |-> "rsa_calculate"]
              ELSE [size |-> part_size, kern |-> "rsa_calculate"]
  IN
  IF flag = 0 THEN calc
  ELSE IF flag = 1 THEN
    IF len # 20 THEN none
    ELSE IF len + 15 + 11 > part_size THEN none
    ELSE calc
  ELSE IF flag = 2 THEN
    IF len + 11 > part_size THEN none ELSE calc
  ELSE none

\* size is the value returned (0 on error), kern the kernel invoked
rsa_raw(len, flag, f, kfail) ==
  LET part_size == (fs_key_read_part(f, "KEY_RSA_p") * 2) % 65536
      none == [size |-> 0, kern |-> "none"]
      calc == IF kfail THEN [size |-> 0, kern |-> "rsa_calculate"]
              ELSE [size |-> part_size, kern |-> "rsa_calculate"]
  IN
  IF flag = 0 THEN (IF len # part_size THEN none ELSE calc)
  ELSE IF flag = 1 THEN
    IF len # 20 THEN none
    ELSE IF len + 15 + 11 > part_size THEN none
    ELSE calc
  ELSE IF flag = 2 THEN
    IF len + 11 > part_size THEN none ELSE calc
  ELSE none

----------------------------------------------------------------------------
(* EC: the curve selection of prepare_ec_param called with size 0 *)

prepare_ec_param(f) ==
  LET ret == fs_key_read_part(f, "KEY_EC_PRIVATE") IN
  IF ret > MP_BYTES THEN 0
  ELSE IF fs_get_file_type(f) = 35 THEN ret
  ELSE IF ret = 24 THEN ret
  ELSE IF MP_BYTES >= 32 /\ ret = 32 THEN ret
  ELSE IF MP_BYTES >= 48 /\ ret = 48 THEN ret
  ELSE IF MP_BYTES >= 66 /\ ret = 66 THEN ret
  ELSE 0

\* what a handler hands back: the status, the response staging, whether
\* read_command_data was called (and failed) and the kernel that was invoked
Out(res, rdv, k) ==
  [sw |-> res.sw, r_flag |-> res.r_flag, r_len |-> res.r_len,
   rd |-> rdv, kern |-> k]

\* variant: the outer length is always in the short form
sign_ec_raw_ShortForm(f, kfail, zr, zs, rf, rl) ==
  LET ret == prepare_ec_param(f)
      skip0 == 2
      nr == (ret + 2 + (IF zr THEN 1 ELSE 0)) % 256
      ns == (ret + 2 + (IF zs THEN 1 ELSE 0)) % 256
      skip == (((nr + ns) % 256) + skip0) % 256
  IN
  IF ret = 0 THEN Out(Ret(S0x6985, rf, rl), RD_OK, "none")
  ELSE IF kfail THEN Out(Ret(S0x6985, rf, rl), RD_OK, "ecdsa_sign")
  ELSE Out(resp_ready(skip), RD_OK, "ecdsa_sign")

\* sign_ec_raw: zr and zs tell whether R and S get a leading 00
sign_ec_raw(f, kfail, zr, zs, rf, rl) ==
  LET ret == prepare_ec_param(f)
      skip0 == IF MP_BYTES > 60 /\ ret > 60 THEN 3 ELSE 2
      nr == (ret + 2 + (IF zr THEN 1 ELSE 0)) % 256
      ns == (ret + 2 + (IF zs THEN 1 ELSE 0)) % 256
      skip == (((nr + ns) % 256) + skip0) % 256
  IN
  IF ret = 0 THEN Out(Ret(S0x6985, rf, rl), RD_OK, "none")
  ELSE IF kfail THEN Out(Ret(S0x6985, rf, rl), RD_OK, "ecdsa_sign")
  ELSE Out(resp_ready(skip), RD_OK, "ecdsa_sign")

----------------------------------------------------------------------------
(* PERFORM SECURITY OPERATION *)

\* x is what the handler meets outside the header: x.ioerr the result of
\* read_command_data, x.ind the first body byte, x.b0 the first byte of the
\* ciphertext, x.kfail the result of the kernel, x.zr and x.zs the top bits
\* of an ECDSA signature, x.hd and x.sep the head and the first zero byte of
\* a decrypted RSA block.

security_operation_rsa_ec_sign(m, x, sa, senv, f, rf, rl) ==
  IF M_LC(m) = 0 THEN Out(Ret(S0x6700, rf, rl), RD_NONE, "none")
  ELSE IF x.ioerr THEN Out(Ret(S0x6984, rf, rl), RD_ERR, "none")
  ELSE IF OpOf(senv) # SENV_SIGN THEN Out(Ret(S0x6985, rf, rl), RD_OK, "none")
  ELSE IF sa = 4 THEN sign_ec_raw(f, x.kfail, x.zr, x.zs, rf, rl)
  ELSE
    LET flag == IF sa = 0 THEN 0 ELSE IF sa = 18 THEN 1
                ELSE IF sa = 2 THEN 2 ELSE 255
    IN
    IF flag # 255 THEN
      LET q == rsa_raw(M_LC(m), flag, f, x.kfail) IN
      IF q.size # 0 THEN Out(resp_ready(q.size), RD_OK, q.kern)
      ELSE Out(Ret(S0x6985, rf, rl), RD_OK, q.kern)
    ELSE Out(Ret(S0x6a81, rf, rl), RD_OK, "none")

\* variant: the length of the block is not tested
des_aes_cipher_AnyLength(size, f, rf, rl) ==
  LET ksize0 == fs_key_read_part(f, "0xA0") % 256
      type == fs_get_file_type(f)
      ksize == IF ksize0 = 7 THEN 8 ELSE ksize0
  IN
  IF type = 25 THEN
    IF ksize \notin {16, 24, 8} THEN Out(Ret(S0x6981, rf, rl), RD_OK, "none")
    ELSE Out(resp_ready(size), RD_OK, "des_run")
  ELSE IF type = 41 THEN
    Out(resp_ready(size), RD_OK, "aes_run")
  ELSE Out(Ret(S0x6981, rf, rl), RD_OK, "none")

des_aes_cipher(size, f, rf, rl) ==
  LET ksize0 == fs_key_read_part(f, "0xA0") % 256
      type == fs_get_file_type(f)
      ksize == IF ksize0 = 7 THEN 8 ELSE ksize0
  IN
  IF type = 25 THEN
    IF ksize \notin {16, 24, 8} THEN Out(Ret(S0x6981, rf, rl), RD_OK, "none")
    ELSE IF size # 8 THEN Out(Ret(S0x6700, rf, rl), RD_OK, "none")
    ELSE Out(resp_ready(size), RD_OK, "des_run")
  ELSE IF type = 41 THEN
    IF size # 16 THEN Out(Ret(S0x6700, rf, rl), RD_OK, "none")
    ELSE Out(resp_ready(size), RD_OK, "aes_run")
  ELSE Out(Ret(S0x6981, rf, rl), RD_OK, "none")

\* the removal of the padding 00 02 PS 00 from a block of size bytes;
\* sep is the index of the first zero byte behind the head.  The value is
\* the length of the payload, 0 when the block is refused.
unpad(size, hd, sep) ==
  IF hd /\ size > 11 THEN
    IF sep >= 2 /\ sep <= size - 2 THEN
      (IF sep < 10 THEN 0 ELSE size - 1 - sep)
    ELSE 0
  ELSE 0

\* cla is message[0] as decipher finds it: the class byte of the header, or
\* the first ciphertext byte once the ciphertext was moved to the buffer start
decipher(size, cla, x, sa, f, rf, rl) ==
  IF fs_key_read_part(f, "0xA0") # 0 THEN
    IF cla # 128 THEN Out(Ret(S0x6a81, rf, rl), RD_OK, "none")
    ELSE des_aes_cipher(size, f, rf, rl)
  ELSE
    LET q == rsa_raw(size, 0, f, x.kfail) IN
    IF q.size = 0 THEN Out(Ret(S0x6985, rf, rl), RD_OK, q.kern)
    ELSE IF sa = 2 THEN
      LET s == unpad(q.size, x.hd, x.sep) IN
      IF s = 0 THEN Out(Ret(S0x6985, rf, rl), RD_OK, q.kern)
      ELSE Out(resp_ready(s), RD_OK, q.kern)
    ELSE Out(resp_ready(q.size), RD_OK, q.kern)

\* variant: the environment is not examined
security_operation_encrypt_NoEnv(m, x, senv, f, rf, rl) ==
  IF M_P2(m) # 128 THEN Out(Ret(S0x6984, rf, rl), RD_NONE, "none")
  ELSE IF M_LC(m) = 0 THEN Out(Ret(S0x6984, rf, rl), RD_NONE, "none")
  ELSE IF x.ioerr THEN Out(Ret(S0x6984, rf, rl), RD_ERR, "none")
  ELSE IF M_CLASS(m) # 128 THEN Out(Ret(S0x6a81, rf, rl), RD_OK, "none")
  ELSE des_aes_cipher(M_LC(m), f, rf, rl)

security_operation_encrypt(m, x, senv, f, rf, rl) ==
  IF OpOf(senv) # SENV_ENCRYPT THEN Out(Ret(S0x6985, rf, rl), RD_NONE, "none")
  ELSE IF M_P2(m) # 128 THEN Out(Ret(S0x6984, rf, rl), RD_NONE, "none")
  ELSE IF M_LC(m) = 0 THEN Out(Ret(S0x6984, rf, rl), RD_NONE, "none")
  ELSE IF x.ioerr THEN Out(Ret(S0x6984, rf, rl), RD_ERR, "none")
  ELSE IF M_CLASS(m) # 128 THEN Out(Ret(S0x6a81, rf, rl), RD_OK, "none")
  ELSE des_aes_cipher(M_LC(m), f, rf, rl)

\* variant: a second part leaves the flag R_TMP
security_operation_decrypt_KeepTmp(m, x, sa, senv, f, rf, rl) ==
  IF OpOf(senv) # SENV_DECRYPT THEN Out(Ret(S0x6985, rf, rl), RD_NONE, "none")
  ELSE IF M_LC(m) = 0 THEN Out(Ret(S0x6984, rf, rl), RD_NONE, "none")
  ELSE IF x.ioerr THEN Out(Ret(S0x6984, rf, rl), RD_ERR, "none")
  ELSE IF M_P2(m) = 132 THEN decipher(M_LC(m), M_CLASS(m), x, sa, f, rf, rl)
  ELSE IF M_P2(m) = 134 THEN
    LET size == M_LC(m) - 1 IN
    IF x.ind = 0 THEN decipher(size, x.b0, x, sa, f, rf, rl)
    ELSE IF x.ind = 129 THEN Out(Ret(S_RET_OK, R_TMP, size), RD_OK, "none")
    ELSE IF x.ind = 130 THEN
      IF rf # R_TMP THEN Out(Ret(S0x6984, rf, rl), RD_OK, "none")
      ELSE IF rl + size > 256 THEN Out(Ret(S0x6984, rf, rl), RD_OK, "none")
      ELSE decipher(size + rl, x.b0, x, sa, f, rf, rl)
    ELSE Out(Ret(S0x6984, rf, rl), RD_OK, "none")
  ELSE Out(Ret(S0x6a86, rf, rl), RD_OK, "none")

security_operation_decrypt(m, x, sa, senv, f, rf, rl) ==
  IF OpOf(senv) # SENV_DECRYPT THEN Out(Ret(S0x6985, rf, rl), RD_NONE, "none")
  ELSE IF M_LC(m) = 0 THEN Out(Ret(S0x6984, rf, rl), RD_NONE, "none")
  ELSE IF x.ioerr THEN Out(Ret(S0x6984, rf, rl), RD_ERR, "none")
  ELSE IF M_P2(m) = 132 THEN decipher(M_LC(m), M_CLASS(m), x, sa, f, rf, rl)
  ELSE IF M_P2(m) = 134 THEN
    LET size == M_LC(m) - 1 IN
    IF x.ind = 0 THEN decipher(size, x.b0, x, sa, f, rf, rl)
    ELSE IF x.ind = 129 THEN Out(Ret(S_RET_OK, R_TMP, size), RD_OK, "none")
    ELSE IF x.ind = 130 THEN
      IF rf # R_TMP THEN Out(Ret(S0x6984, rf, rl), RD_OK, "none")
      ELSE IF rl + size > 256 THEN Out(Ret(S0x6984, R_NO_DATA, rl), RD_OK, "none")
      ELSE decipher(size + rl, x.b0, x, sa, f, R_NO_DATA, rl)
    ELSE Out(Ret(S0x6984, rf, rl), RD_OK, "none")
  ELSE Out(Ret(S0x6a86, rf, rl), RD_OK, "none")

\* variant: the selected file is not compared with key_file_id
security_operation_NoFile(m, x, sa, kf, senv, f, rf, rl) ==
  IF M_P1(m) = 158 /\ M_P2(m) = 154
    THEN security_operation_rsa_ec_sign(m, x, sa, senv, f, rf, rl)
  ELSE IF M_P1(m) = 128
    THEN security_operation_decrypt(m, x, sa, senv, f, rf, rl)
  ELSE IF M_P1(m) = 132
    THEN security_operation_encrypt(m, x, senv, f, rf, rl)
  ELSE Out(Ret(S0x6a86, rf, rl), RD_NONE, "none")

security_operation(m, x, sa, kf, senv, f, rf, rl) ==
  IF f # kf THEN Out(Ret(S0x6985, rf, rl), RD_NONE, "none")
  ELSE IF M_P1(m) = 158 /\ M_P2(m) = 154
    THEN security_operation_rsa_ec_sign(m, x, sa, senv, f, rf, rl)
  ELSE IF M_P1(m) = 128
    THEN security_operation_decrypt(m, x, sa, senv, f, rf, rl)
  ELSE IF M_P1(m) = 132
    THEN security_operation_encrypt(m, x, senv, f, rf, rl)
  ELSE Out(Ret(S0x6a86, rf, rl), RD_NONE, "none")

----------------------------------------------------------------------------
(* GENERAL AUTHENTICATE *)

\* variant: the operation of the environment is not examined
myeid_ecdh_derive_NoEnv(m, x, kf, senv, f, rf, rl) ==
  IF M_P1(m) # 0 \/ M_P2(m) # 0 THEN Out(Ret(S0x6a86, rf, rl), RD_NONE, "none")
  ELSE IF f # kf THEN Out(Ret(S0x6985, rf, rl), RD_NONE, "none")
  ELSE IF M_LC(m) = 0 THEN Out(Ret(S0x6984, rf, rl), RD_NONE, "none")
  ELSE IF MP_BYTES <= 48 /\ M_LC(m) > L_ECDH_OFFSET
    THEN Out(Ret(S0x6700, rf, rl), RD_NONE, "none")
  ELSE IF x.ioerr THEN Out(Ret(S0x6984, rf, rl), RD_ERR, "none")
  ELSE IF M_LC(m) < 3 THEN Out(Ret(S0x6984, rf, rl), RD_OK, "none")
  ELSE IF x.tlen < 0 THEN Out(Ret(S0x6984, rf, rl), RD_OK, "none")
  ELSE
    LET ret == prepare_ec_param(f) IN
    IF ret = 0 THEN Out(Ret(S0x6985, rf, rl), RD_OK, "none")
    ELSE IF ret * 2 # x.tlen THEN Out(Ret(S0x6984, rf, rl), RD_OK, "none")
    ELSE IF x.kfail THEN Out(Ret(S0x6985, rf, rl), RD_OK, "ec_derive_key")
    ELSE Out(resp_ready(ret), RD_OK, "ec_derive_key")

\* x.tlen is the length of the point data the template of the body holds
\* behind the 04 of tag 0x85, -1 when the template is refused
myeid_ecdh_derive(m, x, kf, senv, f, rf, rl) ==
  IF M_P1(m) # 0 \/ M_P2(m) # 0 THEN Out(Ret(S0x6a86, rf, rl), RD_NONE, "none")
  ELSE IF OpOf(senv) # SENV_ECDH THEN Out(Ret(S0x6985, rf, rl), RD_NONE, "none")
  ELSE IF f # kf THEN Out(Ret(S0x6985, rf, rl), RD_NONE, "none")
  ELSE IF M_LC(m) = 0 THEN Out(Ret(S0x6984, rf, rl), RD_NONE, "none")
  ELSE IF MP_BYTES <= 48 /\ M_LC(m) > L_ECDH_OFFSET
    THEN Out(Ret(S0x6700, rf, rl), RD_NONE, "none")
  ELSE IF x.ioerr THEN Out(Ret(S0x6984, rf, rl), RD_ERR, "none")
  ELSE IF M_LC(m) < 3 THEN Out(Ret(S0x6984, rf, rl), RD_OK, "none")
  ELSE IF x.tlen < 0 THEN Out(Ret(S0x6984, rf, rl), RD_OK, "none")
  ELSE
    LET ret == prepare_ec_param(f) IN
    IF ret = 0 THEN Out(Ret(S0x6985, rf, rl), RD_OK, "none")
    ELSE IF ret * 2 # x.tlen THEN Out(Ret(S0x6984, rf, rl), RD_OK, "none")
    ELSE IF x.kfail THEN Out(Ret(S0x6985, rf, rl), RD_OK, "ec_derive_key")
    ELSE Out(resp_ready(ret), RD_OK, "ec_derive_key")

----------------------------------------------------------------------------
(* The handlers byte by byte: the message buffer and r->data *)

\* the message and result buffers hold 256 bytes; RSA_BYTES is at most 128
BUF_BYTES == 256
RSA_BYTES == 128

\* the DigestInfo prefix of SHA-1 that get_constant (.., N_PSHA1_prefix) gives
PSHA1_prefix == <<48, 33, 48, 9, 6, 5, 43, 14, 3, 2, 26, 5, 0, 4, 20>>

\* a function on 1 .. n as a sequence
AsSeq(f) == f \o << >>

\* n bytes of value v
Fill(n, v) == AsSeq([i \in 1 .. n |-> v])

\* memcpy / memmove (buf + off, s, Len(s)) and the n bytes at buf + off
\* (the operands are bound as values, so that each is computed once)
Put(buf, off, s) ==
  CHOOSE r \in { AsSeq([i \in 1 .. Len(b) |->
                          IF i > off /\ i <= off + Len(t) THEN t[i - off]
                                                          ELSE b[i]]) :
                   b \in {buf}, t \in {s} } : TRUE
Take(buf, off, n) ==
  CHOOSE r \in { AsSeq([i \in 1 .. n |-> b[off + i]]) : b \in {buf} } : TRUE

Reverse(s) ==
  CHOOSE r \in { AsSeq([i \in 1 .. Len(t) |-> t[Len(t) + 1 - i]]) :
                   t \in {s} } : TRUE

\* n bytes, none of them zero, that differ with their position
Pat(seed, n) == AsSeq([i \in 1 .. n |-> 1 + ((seed + i) % 251)])

\* reverse_string (buf + off, len)
reverse_string(buf, off, len) == Put(buf, off, Reverse(Take(buf, off, len)))

\* memcpy (buf, buf + src, n) over a source that overlaps the destination,
\* when the bytes are copied from the top down
memcpy_down(buf, src, n) ==
  LET F[j \in 0 .. (n - 1)] ==
        IF src + j <= n - 1 THEN F[src + j] ELSE buf[src + j + 1]
  IN Put(buf, 0, [i \in 1 .. n |-> F[i - 1]])

\* what a handler leaves in the buffers
Bufs(mb, rdat, c, k) ==
  [mbuf |-> mb, r_data |-> rdat, cin |-> c, kin |-> k, kkey |-> << >>]

\* variant: the 0x00 between the padding and the data is not written
pkcs1_type1_NoSeparator(mb, len, part_size) ==
  Put(Put(mb, len, Fill(part_size - len, 255)), part_size - 2, <<1, 0>>)

\* rsa_raw, flag 2: message[len] = 0, 0xff up to part_size, then 01 and 00
pkcs1_type1(mb, len, part_size) ==
  Put(Put(mb, len, <<0>> \o Fill(part_size - len - 1, 255)),
      part_size - 2, <<1, 0>>)

\* variant: the buffers are left as they are when the kernel fails
rsa_fail_bytes_Keep(mb, rdat) == [mbuf |-> mb, r_data |-> rdat]

\* rsa_raw, the kernel failed: memset of both buffers
rsa_fail_bytes(mb, rdat) ==
  [mbuf |-> Put(mb, 0, Fill(BUF_BYTES, 0)), r_data |-> Fill(BUF_BYTES, 0)]

\* rsa_raw on the message at the start of mb; res is the result of the
\* kernel, already reversed
rsa_raw_bytes(len, flag, f, mb, rdat, kfail, res) ==
  LET part_size == (fs_key_read_part(f, "KEY_RSA_p") * 2) % 65536
      m1 == reverse_string(mb, 0, len)
      m2 == IF len < RSA_BYTES
            THEN Put(m1, len, Fill(RSA_BYTES * 2 - len, 0)) ELSE m1
      sha == flag = 1 /\ len = 20
      m3 == IF sha THEN Put(m2, len, Reverse(PSHA1_prefix)) ELSE m2
      len3 == IF sha THEN len + 15 ELSE len
      m4 == IF flag \in {1, 2} THEN pkcs1_type1(m3, len3, part_size) ELSE m3
      q == rsa_raw(len, flag, f, kfail)
  IN
  IF q.kern = "none" THEN Bufs(m3, rdat, << >>, << >>)
  ELSE IF q.size = 0
    THEN LET z == rsa_fail_bytes(m4, rdat)
         IN Bufs(z.mbuf, z.r_data, << >>, Take(m4, 0, part_size))
    ELSE Bufs(m4, Put(rdat, 0, res), << >>, Take(m4, 0, part_size))

\* security_operation_rsa_ec_sign once the body is in mb (the buffers of
\* sign_ec_raw are not followed)
\* add_num_to_seq (here, num, size): the bytes written at here; num is the
\* number, least significant byte first
add_num_to_seq(num, size) ==
  LET be == Reverse(Take(num, 0, size)) IN
  IF be[1] >= 128 THEN <<2, (size + 1) % 256, 0>> \o be
  ELSE <<2, size>> \o be

\* sign_ec_raw (message + 4, r) on the buffers; sig is R followed by S as
\* ecdsa_sign leaves them, least significant byte first
sign_ec_raw_bytes(m, mb, rdat, f, kfail, sig) ==
  LET ret == prepare_ec_param(f)
      mb1 == reverse_string(mb, 5, M_LC(m))
      off == IF ret < M_LC(m) THEN ret ELSE M_LC(m)
      mb2 == IF off < MP_BYTES THEN Put(mb1, 5 + off, Fill(MP_BYTES - off, 0))
             ELSE mb1
      long == MP_BYTES > 60 /\ ret > 60
      tr == add_num_to_seq(Take(sig, 0, ret), ret)
      ts == add_num_to_seq(Take(sig, ret, ret), ret)
      skip == (Len(tr) + Len(ts)) % 256
      head == IF long THEN <<48, 129, skip>> ELSE <<48, skip>>
  IN
  IF ret = 0 THEN Bufs(mb1, rdat, << >>, << >>)
  ELSE IF kfail THEN Bufs(mb2, rdat, << >>, Take(mb2, 5, ret))
  ELSE Bufs(mb2, Put(rdat, 0, head \o tr \o ts), << >>, Take(mb2, 5, ret))

sign_bytes(m, mb, rdat, sa, senv, f, kfail, res) ==
  IF OpOf(senv) # SENV_SIGN THEN Bufs(mb, rdat, << >>, << >>)
  ELSE IF sa = 4 THEN sign_ec_raw_bytes(m, mb, rdat, f, kfail, res)
  ELSE IF sa \notin {0, 2, 18} THEN Bufs(mb, rdat, << >>, << >>)
  ELSE
    LET flag == IF sa = 0 THEN 0 ELSE IF sa = 18 THEN 1 ELSE 2
        size == M_LC(m)
    IN rsa_raw_bytes(size, flag, f, Put(mb, 0, Take(mb, 5, size)), rdat,
                     kfail, res)

\* des_56to64 (key): the 56 key bits spread over 8 bytes, 7 to a byte in
\* bits 7..1; bit 0 of each byte is the parity bit DES does not use
des_56to64(k) ==
  LET bit(j) == (k[(j \div 8) + 1] \div 2^(7 - (j % 8))) % 2
      byte(i) == 128 * bit(7 * i) + 64 * bit(7 * i + 1) + 32 * bit(7 * i + 2)
                 + 16 * bit(7 * i + 3) + 8 * bit(7 * i + 4)
                 + 4 * bit(7 * i + 5) + 2 * bit(7 * i + 6)
  IN AsSeq([i \in 1 .. 8 |-> byte(i - 1)])

\* the number of key bytes des_run reads: 24 with DES_3DES, else 8
des_key_bytes(ksize) == IF ksize \in {16, 24} THEN 24 ELSE 8

\* des_aes_cipher on the size bytes at mb + off; the key is read into
\* r->data first, out is what the cipher leaves in place of the data
des_aes_cipher_bytes(size, off, f, mb, rdat, out) ==
  LET ksize0 == fs_key_read_part(f, "0xA0") % 256
      type == fs_get_file_type(f)
      r1 == Put(rdat, 0, fs_key_data(f))
      r7 == IF type = 25 /\ ksize0 = 7
            THEN Put(r1, 0, des_56to64(Take(r1, 0, 7))) ELSE r1
      ksize == IF type = 25 /\ ksize0 = 7 THEN 8 ELSE ksize0
      r2 == IF type = 25 /\ ksize = 16 THEN Put(r7, 0, Take(r7, 16, 8)) ELSE r7
      ok == \/ type = 25 /\ ksize \in {16, 24, 8} /\ size = 8
            \/ type = 41 /\ size = 16
      key == IF type = 25 THEN Take(r2, 0, des_key_bytes(ksize))
             ELSE Take(r2, 0, ksize)
  IN
  IF ok
    THEN [Bufs(Put(mb, off, out), Put(r2, 0, out), << >>, Take(mb, off, size))
            EXCEPT !.kkey = key]
  ELSE Bufs(mb, IF type = 25 THEN r2 ELSE r1, << >>, << >>)

\* the head 00 02 of a decrypted block and the C index of the first zero
\* byte behind it that the loop meets (size when it meets none)
UnpadHead(d) == Len(d) >= 2 /\ d[1] = 0 /\ d[2] = 2
UnpadSep(d, size) ==
  LET Z == { i \in 2 .. (size - 2) : d[i + 1] = 0 } IN
  IF Z = {} THEN size ELSE CHOOSE i \in Z : \A j \in Z : i <= j

\* decipher on the buffer mb; back tells the direction of the overlapping
\* memcpy that moves the payload to the start of r->data
decipher_bytes(size, sa, f, mb, rdat, kfail, res, out, back) ==
  IF fs_key_read_part(f, "0xA0") # 0 THEN
    LET c == Take(mb, 5, size) IN
    IF mb[1] # 128 THEN Bufs(mb, rdat, c, << >>)
    ELSE [des_aes_cipher_bytes(size, 5, f, mb, rdat, out) EXCEPT !.cin = c]
  ELSE
    LET c == Take(mb, 0, size)
        q == rsa_raw(size, 0, f, kfail)
        b == [rsa_raw_bytes(size, 0, f, mb, rdat, kfail, res) EXCEPT !.cin = c]
        s == unpad(q.size, UnpadHead(res), UnpadSep(res, q.size))
        sep == UnpadSep(res, q.size)
    IN
    IF q.size = 0 \/ sa # 2 \/ s = 0 THEN b
    ELSE IF back /\ s > sep + 1
      THEN [b EXCEPT !.r_data = memcpy_down(b.r_data, sep + 1, s)]
      ELSE [b EXCEPT !.r_data = Put(b.r_data, 0, Take(b.r_data, sep + 1, s))]

\* the buffer security_operation_decrypt hands to decipher and the size
decrypt_entry(m, mb, rdat, rl) ==
  LET size == M_LC(m) - 1 IN
  IF M_P2(m) = 132 THEN [mbuf |-> mb, r_data |-> rdat, size |-> M_LC(m)]
  ELSE IF mb[6] = 0
    THEN [mbuf |-> Put(mb, 0, Take(mb, 6, size)), r_data |-> rdat,
          size |-> size]
  ELSE
    LET r1 == Put(rdat, rl, Take(mb, 6, size)) IN
    [mbuf |-> Put(mb, 0, Take(r1, 0, size + rl)), r_data |-> r1,
     size |-> size + rl]

\* message[0] as decipher finds it when security_operation_decrypt gets to
\* call it behind a move of the ciphertext (0 stands for any other case)
decrypt_b0(m, mb, rdat, rf, rl) ==
  IF M_P1(m) = 128 /\ M_P2(m) = 134 /\ M_LC(m) # 0
     /\ (mb[6] = 0 \/ (mb[6] = 130 /\ rf = R_TMP /\ rl + M_LC(m) - 1 <= 256))
  THEN decrypt_entry(m, mb, rdat, rl).mbuf[1]
  ELSE 0

\* security_operation_decrypt once the body is in mb
decrypt_bytes(m, mb, rdat, rf, rl, sa, f, kfail, res, out, back) ==
  LET size == M_LC(m) - 1
      e == decrypt_entry(m, mb, rdat, rl)
  IN
  IF M_P2(m) = 132 \/ (M_P2(m) = 134 /\ mb[6] = 0)
    THEN decipher_bytes(e.size, sa, f, e.mbuf, e.r_data, kfail, res, out, back)
  ELSE IF M_P2(m) = 134 /\ mb[6] = 129
    THEN Bufs(mb, Put(rdat, 0, Take(mb, 6, size)), << >>, << >>)
  ELSE IF M_P2(m) = 134 /\ mb[6] = 130 /\ rf = R_TMP /\ rl + size <= 256
    THEN decipher_bytes(e.size, sa, f, e.mbuf, e.r_data, kfail, res, out, back)
  ELSE Bufs(mb, rdat, << >>, << >>)

\* security_operation_encrypt once the body is in mb
encrypt_bytes(m, mb, rdat, f, out) ==
  IF mb[1] # 128 THEN Bufs(mb, rdat, << >>, << >>)
  ELSE des_aes_cipher_bytes(M_LC(m), 5, f, mb, rdat, out)

\* security_operation on the buffers, o being what it returned; body is the
\* command body read_command_data puts behind the header
security_operation_bytes(o, m, b, mb, rdat, rf, rl, sa, senv, f, kfail, res, out, back) ==
  LET rx == Put(mb, 5, b) IN
  IF o.rd # RD_OK THEN Bufs(mb, rdat, << >>, << >>)
  ELSE IF M_P1(m) = 158
    THEN sign_bytes(m, rx, rdat, sa, senv, f, kfail, res)
  ELSE IF M_P1(m) = 128
    THEN decrypt_bytes(m, rx, rdat, rf, rl, sa, f, kfail, res, out, back)
  ELSE encrypt_bytes(m, rx, rdat, f, out)

----------------------------------------------------------------------------
(* GENERAL AUTHENTICATE byte by byte *)

\* *t for a pointer t into r->data; a read behind the 256 bytes of r->data
\* gives oob, whatever the memory behind the array holds
Rd(buf, t, oob) == IF t < Len(buf) THEN buf[t + 1] ELSE oob

\* the bytes no template has
EcdhRefused == [ok |-> FALSE, t |-> 0, tlen |-> 0]

\* the while loop over the objects of the template: t is the offset of the
\* pointer in r->data, tlen the uint8_t t_len
RECURSIVE ecdh_objects(_, _, _, _)
ecdh_objects(buf, t, tlen, oob) ==
  IF tlen <= 1 THEN [ok |-> TRUE, t |-> t, tlen |-> tlen]
  ELSE
    LET tg == Rd(buf, t, oob)
        tl0 == Rd(buf, t + 1, oob)
        long == tl0 >= 128
        tl == IF long THEN Rd(buf, t + 2, oob) ELSE tl0
        t1 == IF long THEN t + 3 ELSE t + 2
        n1 == IF long THEN (tlen + 253) % 256 ELSE (tlen + 254) % 256
    IN
    IF long /\ tl0 # 129 THEN EcdhRefused
    ELSE IF n1 < tl THEN EcdhRefused
    ELSE IF tg = 133 THEN
      IF Rd(buf, t1, oob) # 4 THEN EcdhRefused
      ELSE IF tl # n1 THEN EcdhRefused
      ELSE [ok |-> TRUE, t |-> t1 + 1, tlen |-> (n1 + 255) % 256]
    ELSE IF tg = 128 THEN ecdh_objects(buf, t1 + tl, n1 - tl, oob)
    ELSE EcdhRefused

\* the checks of the template that was copied to r->data (buf), lc = M_LC
ecdh_template(buf, lc, oob) ==
  LET long == buf[2] >= 128
      dlen == IF long THEN lc - 1 ELSE lc
      tlen == IF long THEN buf[3] ELSE buf[2]
  IN
  IF buf[1] # 124 THEN EcdhRefused
  ELSE IF long /\ buf[2] # 129 THEN EcdhRefused
  ELSE IF tlen # dlen - 2 THEN EcdhRefused
  ELSE ecdh_objects(buf, IF long THEN 3 ELSE 2, tlen, oob)

\* the reads of the loop over the objects: top is the number of bytes of
\* buf up to the last one the handler examines (reverse_copy of the point
\* of 2 * n bytes included), wrap tells that t_len (uint8_t) was
\* decremented below zero; w is the wrap so far
RECURSIVE ecdh_reads(_, _, _, _, _, _)
ecdh_reads(buf, t, tlen, n, oob, w) ==
  IF tlen <= 1 THEN [top |-> t, wrap |-> w]
  ELSE
    LET tg == Rd(buf, t, oob)
        tl0 == Rd(buf, t + 1, oob)
        long == tl0 >= 128
        tl == IF long THEN Rd(buf, t + 2, oob) ELSE tl0
        t1 == IF long THEN t + 3 ELSE t + 2
        n0 == IF long THEN tlen - 1 ELSE tlen
        n1 == (n0 + 254) % 256
        w1 == w \/ n0 < 2
        n2 == (n1 + 255) % 256
    IN
    IF long /\ tl0 # 129 THEN [top |-> t + 2, wrap |-> w]
    ELSE IF n1 < tl THEN [top |-> t1, wrap |-> w1]
    ELSE IF tg = 133 THEN
      IF Rd(buf, t1, oob) # 4 \/ tl # n1 THEN [top |-> t1 + 1, wrap |-> w1]
      ELSE [top |-> IF n # 0 /\ 2 * n = n2 THEN t1 + 1 + 2 * n ELSE t1 + 1,
            wrap |-> w1 \/ n1 = 0]
    ELSE IF tg = 128 THEN ecdh_reads(buf, t1 + tl, n1 - tl, n, oob, w1)
    ELSE [top |-> t1, wrap |-> w1]

\* the reads of the handler in the template that was copied to r->data
ecdh_walk(buf, lc, n, oob) ==
  LET long == buf[2] >= 128
      dlen == IF long THEN lc - 1 ELSE lc
      tlen == IF long THEN buf[3] ELSE buf[2]
      t == IF long THEN 3 ELSE 2
  IN
  IF buf[1] # 124 THEN [top |-> 1, wrap |-> FALSE]
  ELSE IF long /\ buf[2] # 129 THEN [top |-> 2, wrap |-> FALSE]
  ELSE IF tlen # dlen - 2 THEN [top |-> t, wrap |-> FALSE]
  ELSE ecdh_reads(buf, t, tlen, n, oob, FALSE)

\* reverse_copy (dst, buf + t, n): the bytes read, in the order stored
reverse_copy(buf, t, n, oob) ==
  AsSeq([i \in 1 .. n |-> Rd(buf, t + n - i, oob)])

\* myeid_ecdh_derive on the buffers, o being what it returned; dk is the X
\* coordinate ec_derive_key leaves, least significant byte first
ecdh_derive_bytes(o, m, b, mb, rdat, f, oob, dk) ==
  LET rx == Put(mb, 5, b)
      r1 == Put(rdat, 0, b)
      q == ecdh_template(r1, M_LC(m), oob)
      ret == prepare_ec_param(f)
      point == reverse_copy(r1, q.t, ret, oob)
               \o reverse_copy(r1, q.t + ret, ret, oob)
  IN
  IF o.rd # RD_OK THEN Bufs(mb, rdat, << >>, << >>)
  ELSE IF M_LC(m) < 3 THEN Bufs(rx, rdat, << >>, << >>)
  ELSE IF o.kern = "none" THEN Bufs(rx, r1, << >>, << >>)
  ELSE IF o.sw = S0x6100 THEN Bufs(rx, Put(r1, 0, Reverse(dk)), << >>, point)
  ELSE Bufs(rx, r1, << >>, point)

----------------------------------------------------------------------------
(* GET DATA *)

\* what a handler of GET DATA or GENERATE KEY hands back: the status, the
\* response staging and buffer, the function of the file system or the
\* kernel it called and the argument it gave
Res(status, rf, rl, rdat, k, arg) ==
  [sw |-> status, r_flag |-> rf, r_len |-> rl, r_data |-> rdat,
   kern |-> k, kin |-> arg]

\* resp_ready (r, len) behind the bytes of the response
Ready(len, rdat, k, arg) == Res(S0x6100, R_RESP_READY, len % 256, rdat, k, arg)

\* the constants get_constant gives: n bytes that depend on the id
get_constant(id, n) == AsSeq([i \in 1 .. n |-> (id + 3 * i) % 256])

\* ecc_param (v, r)
ecc_param(v, f, rdat, rf, rl) ==
  LET len == prepare_ec_param(f)
      r1 == IF v = 132
            THEN Put(rdat, 0, get_constant(6, len) \o get_constant(5, len))
            ELSE Put(rdat, 0, get_constant(v, len))
      n == IF v = 132 THEN 2 * len ELSE len
  IN
  IF len = 0 THEN Res(S0x6a88, rf, rl, rdat, "none", << >>)
  ELSE Ready(n, reverse_string(r1, 0, n), "none", << >>)

\* ec_read_public_key (r, tag); pt holds the parts of the selected file
ec_read_public_key(tag, pt, rdat, rf, rl) ==
  LET pub == pt["KEY_EC_PUBLIC"]
      ret == Len(pub) % 256
      head == IF ret > 128 THEN <<tag, 129, ret>> ELSE <<tag, ret>>
      r0 == Put(rdat, 0, <<tag>>)
  IN
  IF ret = 0 THEN Res(S0x6985, rf, rl, r0, "none", << >>)
  ELSE Ready(ret + Len(head), Put(rdat, 0, head \o pub), "none", << >>)

\* variant: the two halves of a 2048-bit modulus are joined the other way
get_modulus_Swapped(pt, rdat, rf, rl) ==
  LET mod == pt["KEY_RSA_MOD"]
      p1 == pt["KEY_RSA_MOD_p1"]
      p2 == pt["KEY_RSA_MOD_p2"]
      all == IF mod # << >> THEN mod ELSE p1 \o p2
  IN
  IF mod = << >> /\ p2 = << >> THEN Res(S0x6a88, rf, rl, rdat, "none", << >>)
  ELSE IF mod = << >> /\ p1 = << >>
    THEN Res(S0x6a88, rf, rl, Put(rdat, 0, p2), "none", << >>)
  ELSE Ready(IF Len(all) = 256 THEN 0 ELSE Len(all),
             reverse_string(Put(rdat, 0, all), 0, Len(all)), "none", << >>)

\* myeid_get_data, case 1: the modulus
get_modulus(pt, rdat, rf, rl) ==
  LET mod == pt["KEY_RSA_MOD"]
      p1 == pt["KEY_RSA_MOD_p1"]
      p2 == pt["KEY_RSA_MOD_p2"]
      all == IF mod # << >> THEN mod ELSE p2 \o p1
  IN
  IF mod = << >> /\ p2 = << >> THEN Res(S0x6a88, rf, rl, rdat, "none", << >>)
  ELSE IF mod = << >> /\ p1 = << >>
    THEN Res(S0x6a88, rf, rl, Put(rdat, 0, p2), "none", << >>)
  ELSE Ready(IF Len(all) = 256 THEN 0 ELSE Len(all),
             reverse_string(Put(rdat, 0, all), 0, Len(all)), "none", << >>)

\* myeid_get_data, case 0: the info data of the key
get_key_info(pt, rdat, rf, rl) ==
  LET e == Len(pt["KEY_RSA_EXP_PUB"])
      q == Len(pt["KEY_RSA_p"])
      r1 == Put(rdat, 0, <<146, 0>>)
      r2 == Put(r1, 2, <<(e * 8) \div 256, (e * 8) % 256>>)
      r3 == Put(r2, 4, <<(q * 16) \div 256, (q * 16) % 256>>)
  IN
  IF e = 0 THEN Res(S0x6a88, rf, rl, r1, "none", << >>)
  ELSE IF q = 0 THEN Res(S0x6a88, rf, rl, r2, "none", << >>)
  ELSE Ready(6, r3, "none", << >>)

\* a function of the file system that fills the response: ok tells whether
\* it found the data, and then it stages n bytes
fs_response(name, arg, ok, n, rdat, rf, rl) ==
  IF ok THEN Ready(n, Put(rdat, 0, Fill(n, 80)), name, arg)
  ELSE Res(S0x6a88, rf, rl, rdat, name, arg)

\* (M_P2 & 0xb0) == 0xb0
IsPinSelector(p2) ==
  /\ p2 >= 128
  /\ (p2 \div 32) % 2 = 1
  /\ (p2 \div 16) % 2 = 1

\* myeid_get_data; x.ok and x.n are what the file system answers, x.acl
\* the access condition of the selected file
myeid_get_data(m, x, f, pt, rdat, rf, rl) ==
  LET p2 == M_P2(m) IN
  IF M_P1(m) # 1 THEN Res(S0x6a88, rf, rl, rdat, "none", << >>)
  ELSE IF IsPinSelector(p2)
    THEN fs_response("fs_return_pin_info", <<p2 % 16>>, x.ok, x.n, rdat, rf, rl)
  ELSE IF p2 >= 129 /\ p2 <= 133 THEN ecc_param(p2, f, rdat, rf, rl)
  ELSE IF p2 = 160
    THEN Ready(20, Put(rdat, 0, get_constant(160, 20)), "none", << >>)
  ELSE IF p2 >= 161 /\ p2 <= 166
    THEN fs_response("fs_list_files", <<p2>>, x.ok, x.n, rdat, rf, rl)
  ELSE IF p2 = 170
    THEN Ready(11, Put(rdat, 0, get_constant(170, 11)), "none", << >>)
  ELSE IF p2 = 172
    THEN Ready(2, Put(rdat, 0, <<x.acl \div 256, x.acl % 256>>), "none", << >>)
  ELSE IF p2 = 0 THEN get_key_info(pt, rdat, rf, rl)
  ELSE IF p2 = 1 THEN get_modulus(pt, rdat, rf, rl)
  ELSE IF p2 = 2 THEN
    LET e == pt["KEY_RSA_EXP_PUB"] IN
    IF e = << >> THEN Res(S0x6a88, rf, rl, rdat, "none", << >>)
    ELSE Ready(Len(e), Put(rdat, 0, e), "none", << >>)
  ELSE IF p2 = 134 THEN ec_read_public_key(48, pt, rdat, rf, rl)
  ELSE Res(S0x6a88, rf, rl, rdat, "none", << >>)

----------------------------------------------------------------------------
(* GENERATE KEY *)

\* variant: the step of 64 bits is not checked
check_rsa_key_size_NoStep(size) == size < 512 \/ size > 2048

\* check_rsa_key_size (size): TRUE when the size is refused
check_rsa_key_size(size) == size % 64 # 0 \/ size < 512 \/ size > 2048

\* check_ec_key_file (size, type): TRUE when the pair is refused
check_ec_key_file(size, type) ==
  IF type = 35 /\ size = 256 THEN FALSE
  ELSE IF type = 34 /\ size = 192 THEN FALSE
  ELSE IF type = 34 /\ MP_BYTES >= 32 /\ size = 256 THEN FALSE
  ELSE IF type = 34 /\ MP_BYTES >= 48 /\ size = 384 THEN FALSE
  ELSE IF type = 34 /\ MP_BYTES >= 66 /\ size = 521 THEN FALSE
  ELSE TRUE

\* prepare_ec_param (c, p, size) called with a size other than 0: the
\* size of the scalar of the curve it selects, 0 when it selects none
prepare_ec_param_size(type, size) ==
  IF type = 35 THEN size
  ELSE IF size = 24 THEN size
  ELSE IF MP_BYTES >= 32 /\ size = 32 THEN size
  ELSE IF MP_BYTES >= 48 /\ size = 48 THEN size
  ELSE IF MP_BYTES >= 66 /\ size = 66 THEN size
  ELSE 0

\* the type byte fs_key_write_part is given for a part type
PartCode(t) ==
  CASE t = "KEY_RSA_p" -> 131 [] t = "KEY_RSA_q" -> 132
    [] t = "KEY_RSA_dP" -> 133 [] t = "KEY_RSA_dQ" -> 134
    [] t = "KEY_RSA_qInv" -> 135 [] t = "KEY_RSA_MOD" -> 128
    [] t = "KEY_RSA_MOD_p1" -> 136 [] t = "KEY_RSA_MOD_p2" -> 137
    [] t = "KEY_RSA_EXP_PUB" -> 129 [] t = "KEY_EC_PRIVATE" -> 48
    [] t = "KEY_EC_PUBLIC" -> 49 [] t = "KEY_RSA_EXP" -> 130
    [] t = "KEY_RSA_EXP_p1" -> 138 [] t = "KEY_RSA_EXP_p2" -> 139
    [] t = "0xA0" -> 160

\* the part fs_key_write_part (buf + off) is given: the type byte, the
\* length byte, then the data
KeyPart(buf, off) == Take(buf, off + 2, buf[off + 2])

\* one call of fs_key_write_part: the part type, the data, and the message
\* buffer at the time of the call
Write(t, v, mb) == [t |-> t, v |-> v, mb |-> mb]

\* variant: the handler goes on behind a call that failed
fs_key_write_parts_GoesOn(Ws, wfail, pt) ==
  LET n == Len(Ws)
      k == IF wfail \in 1 .. n THEN wfail ELSE 0
  IN
  CHOOSE r \in
    { [failed |-> k # 0,
       parts |-> [t \in PartTypes |->
                    LET is == {i \in 1 .. n : i # k /\ W[i].t = t} IN
                    IF is = {} THEN p[t] ELSE W[CHOOSE i \in is : TRUE].v],
       wlog |-> AsSeq([i \in 1 .. n |-> W[i].t]),
       mbuf |-> W[n].mb] :
      W \in {AsSeq([i \in 1 .. n |-> Ws[i]])}, p \in {pt} } : TRUE

\* the calls Ws of fs_key_write_part in their order; the call number wfail
\* fails (none when wfail = 0) and the handler returns at once; a part that
\* was written is read back as written
fs_key_write_parts(Ws, wfail, pt) ==
  LET n == Len(Ws)
      k == IF wfail \in 1 .. n THEN wfail ELSE 0
      done == IF k = 0 THEN n ELSE k - 1
      called == IF k = 0 THEN n ELSE k
  IN
  CHOOSE r \in
    { [failed |-> k # 0,
       parts |-> [t \in PartTypes |->
                    LET is == {i \in 1 .. done : W[i].t = t} IN
                    IF is = {} THEN p[t] ELSE W[CHOOSE i \in is : TRUE].v],
       wlog |-> AsSeq([i \in 1 .. called |-> W[i].t]),
       mbuf |-> W[called].mb] :
      W \in {AsSeq([i \in 1 .. called |-> Ws[i]])}, p \in {pt} } : TRUE

\* what GENERATE KEY leaves: the status, the response staging and buffer,
\* the kernel it invoked, the message buffer, the parts of the file, the
\* calls of fs_key_write_part, the call of read_command_data, what the
\* kernel left in r->data
Gen(status, rf, rl, rdat, k, mb, pt, wl, rdc, ko) ==
  [sw |-> status, r_flag |-> rf, r_len |-> rl, r_data |-> rdat, kern |-> k,
   mbuf |-> mb, parts |-> pt, wlog |-> wl, rd |-> rdc, kout |-> ko]

\* what rsa_keygen gives for a key of 2 * ret bytes: P and Q (into the
\* message), dP, dQ, qInv (into the key structure), the modulus (into
\* r->data), all little-endian
RsaP(ret) == Pat(11, ret)
RsaQ(ret) == Pat(41, ret)
RsaDP(ret) == Pat(67, ret)
RsaDQ(ret) == Pat(97, ret)
RsaQInv(ret) == Pat(127, ret)
RsaMod(ret) == Pat(7, 2 * ret)

\* myeid_generate_rsa_key (built without USE_P_Q_INV); b is the body of the
\* command, x.ioerr the failure of read_command_data, x.kfail the failure
\* of rsa_keygen, x.wfail the call of fs_key_write_part that fails with
\* x.werr
myeid_generate_rsa_key(m, b, x, f, mb, rdat, rf, rl, pt) ==
  LET lc == M_LC(m)
      rx == IF lc = 0 THEN mb ELSE Put(mb, 5, b)
      rdc == IF lc = 0 THEN RD_NONE ELSE IF x.ioerr THEN RD_ERR ELSE RD_OK
      bad == \/ lc # 7
             \/ rx[6] # 48
             \/ (rx[8] # 129 /\ rx[8] # 2)
             \/ rx[7] # 5
             \/ rx[9] # 3
             \/ rx[10] # 1
             \/ rx[11] # 0
             \/ rx[12] # 1
      k_size == fs_get_file_size(f)
      ret == k_size \div 16
      m0 == Put(Put(rx, 4, RsaP(ret)), 132, RsaQ(ret))
      r0 == Put(rdat, 0, RsaMod(ret))
      m1 == Put(m0, 2, <<PartCode("KEY_RSA_p"), ret>>)
      m2 == Put(m1, 130, <<PartCode("KEY_RSA_q"), ret>>)
      m3 == Put(Put(m2, 4, RsaDP(ret)), 2, <<PartCode("KEY_RSA_dP")>>)
      m4 == Put(Put(m3, 4, RsaDQ(ret)), 2, <<PartCode("KEY_RSA_dQ")>>)
      m5 == Put(Put(m4, 4, RsaQInv(ret)), 2, <<PartCode("KEY_RSA_qInv")>>)
      m6 == IF k_size = 2048
            THEN Put(Put(m5, 4, Take(r0, 0, 128)), 2,
                     <<PartCode("KEY_RSA_MOD_p2"), 128>>)
            ELSE Put(Put(m5, 4, Take(r0, 0, k_size \div 8)), 2,
                     <<PartCode("KEY_RSA_MOD"), (k_size \div 8) % 256>>)
      m7 == IF k_size = 2048
            THEN Put(Put(m6, 4, Take(r0, 128, 128)), 2,
                     <<PartCode("KEY_RSA_MOD_p1")>>)
            ELSE m6
      m8 == Put(m7, 2, <<PartCode("KEY_RSA_EXP_PUB"), 3, 1, 0, 1>>)
      mods == IF k_size = 2048
              THEN << Write("KEY_RSA_MOD_p2", KeyPart(m6, 2), m6),
                      Write("KEY_RSA_MOD_p1", KeyPart(m7, 2), m7) >>
              ELSE << Write("KEY_RSA_MOD", KeyPart(m6, 2), m6) >>
      Ws == << Write("KEY_RSA_p", KeyPart(m1, 2), m1),
               Write("KEY_RSA_q", KeyPart(m2, 130), m2),
               Write("KEY_RSA_dP", KeyPart(m3, 2), m3),
               Write("KEY_RSA_dQ", KeyPart(m4, 2), m4),
               Write("KEY_RSA_qInv", KeyPart(m5, 2), m5) >>
            \o mods
            \o << Write("KEY_RSA_EXP_PUB", KeyPart(m8, 2), m8) >>
      w == fs_key_write_parts(Ws, x.wfail, pt)
  IN
  IF lc # 0 /\ x.ioerr
    THEN Gen(S0x6984, rf, rl, rdat, "none", mb, pt, << >>, rdc, << >>)
  ELSE IF lc # 0 /\ bad
    THEN Gen(S0x6984, rf, rl, rdat, "none", rx, pt, << >>, rdc, << >>)
  ELSE IF check_rsa_key_size(k_size)
    THEN Gen(S0x6981, rf, rl, rdat, "none", rx, pt, << >>, rdc, << >>)
  ELSE IF x.kfail
    THEN Gen(S0x6a82, rf, rl, rdat, "rsa_keygen", rx, pt, << >>, rdc, << >>)
  ELSE IF w.failed
    THEN Gen(x.werr, rf, rl, r0, "rsa_keygen", w.mbuf, w.parts, w.wlog, rdc,
             RsaMod(ret))
  ELSE Gen(S0x6100, R_RESP_READY, (ret * 2) % 256,
           reverse_string(r0, 0, ret * 2), "rsa_keygen", w.mbuf, w.parts,
           w.wlog, rdc, RsaMod(ret))

\* what ec_key_gener gives for a curve of n bytes: the private scalar and
\* the coordinates of the public point, little-endian
EcPriv(n) == Reverse(Pat(1, n))
EcX(n) == Reverse(Pat(16, n))
EcY(n) == Reverse(Pat(80, n))

\* the bytes the structure pub_key leaves in r->data
EcWork == Fill(BUF_BYTES, 204)

\* variant: the public point is written before the private scalar
myeid_generate_key_PublicFirst(m, b, x, f, mb, rdat, rf, rl, pt) ==
  LET type == fs_get_file_type(f)
      k_size == fs_get_file_size(f)
      n == prepare_ec_param_size(type, ((k_size + 7) \div 8) % 256)
      size == (n * 2 + 1) % 256
      pub == Take(<<4>> \o Reverse(EcX(n)) \o Reverse(EcY(n)), 0, size)
      Ws == << Write("KEY_EC_PUBLIC", pub, mb),
               Write("KEY_EC_PRIVATE", Reverse(EcPriv(n)), mb) >>
      w == fs_key_write_parts(Ws, x.wfail, pt)
      o == ec_read_public_key(134, w.parts, EcWork, rf, rl)
  IN
  IF M_P1(m) # 0 \/ M_P2(m) # 0
    THEN Gen(S0x6a86, rf, rl, rdat, "none", mb, pt, << >>, RD_NONE, << >>)
  ELSE IF type = 17
    THEN myeid_generate_rsa_key(m, b, x, f, mb, rdat, rf, rl, pt)
  ELSE IF M_LC(m) # 0
    THEN Gen(S0x6985, rf, rl, rdat, "none", mb, pt, << >>, RD_NONE, << >>)
  ELSE IF check_ec_key_file(k_size, type)
    THEN Gen(S0x6985, rf, rl, rdat, "none", mb, pt, << >>, RD_NONE, << >>)
  ELSE IF n = 0
    THEN Gen(S0x6985, rf, rl, EcWork, "prepare_ec_param", mb, pt, << >>,
             RD_NONE, << >>)
  ELSE IF x.kfail
    THEN Gen(S0x6985, rf, rl, EcWork, "ec_key_gener", mb, pt, << >>,
             RD_NONE, << >>)
  ELSE IF w.failed
    THEN Gen(x.werr, rf, rl, EcWork, "ec_key_gener", mb, w.parts, w.wlog,
             RD_NONE, EcX(n) \o EcY(n))
  ELSE Gen(o.sw, o.r_flag, o.r_len, o.r_data, "ec_key_gener", mb, w.parts,
           w.wlog, RD_NONE, EcX(n) \o EcY(n))

\* myeid_generate_key; the message buffer keeps its bytes on the EC path,
\* where the curve parameters are in a buffer of their own (MP_BYTES > 48)
myeid_generate_key(m, b, x, f, mb, rdat, rf, rl, pt) ==
  LET type == fs_get_file_type(f)
      k_size == fs_get_file_size(f)
      n == prepare_ec_param_size(type, ((k_size + 7) \div 8) % 256)
      size == (n * 2 + 1) % 256
      pub == Take(<<4>> \o Reverse(EcX(n)) \o Reverse(EcY(n)), 0, size)
      Ws == << Write("KEY_EC_PRIVATE", Reverse(EcPriv(n)), mb),
               Write("KEY_EC_PUBLIC", pub, mb) >>
      w == fs_key_write_parts(Ws, x.wfail, pt)
      o == ec_read_public_key(134, w.parts, EcWork, rf, rl)
  IN
  IF M_P1(m) # 0 \/ M_P2(m) # 0
    THEN Gen(S0x6a86, rf, rl, rdat, "none", mb, pt, << >>, RD_NONE, << >>)
  ELSE IF type = 17
    THEN myeid_generate_rsa_key(m, b, x, f, mb, rdat, rf, rl, pt)
  ELSE IF M_LC(m) # 0
    THEN Gen(S0x6985, rf, rl, rdat, "none", mb, pt, << >>, RD_NONE, << >>)
  ELSE IF check_ec_key_file(k_size, type)
    THEN Gen(S0x6985, rf, rl, rdat, "none", mb, pt, << >>, RD_NONE, << >>)
  ELSE IF n = 0
    THEN Gen(S0x6985, rf, rl, EcWork, "prepare_ec_param", mb, pt, << >>,
             RD_NONE, << >>)
  ELSE IF x.kfail
    THEN Gen(S0x6985, rf, rl, EcWork, "ec_key_gener", mb, pt, << >>,
             RD_NONE, << >>)
  ELSE IF w.failed
    THEN Gen(x.werr, rf, rl, EcWork, "ec_key_gener", mb, w.parts, w.wlog,
             RD_NONE, EcX(n) \o EcY(n))
  ELSE Gen(o.sw, o.r_flag, o.r_len, o.r_data, "ec_key_gener", mb, w.parts,
           w.wlog, RD_NONE, EcX(n) \o EcY(n))

----------------------------------------------------------------------------
(* PUT DATA and ACTIVATE APPLET *)

\* the part type a type byte stands for
PartName(code) == CHOOSE t \in PartTypes : PartCode(t) = code

\* the type bytes of key parts, 0x80 .. 0x8B and 0xA0
PartCodes == { PartCode(t) : t \in PartTypes \ {"KEY_EC_PRIVATE",
                                               "KEY_EC_PUBLIC"} }

\* one call of fs_key_write_part (buf + off) for the part type t, which
\* fails with x.werr when x.wfail = 1; what the command leaves
upload_write(t, buf, off, x, pt, rdc) ==
  LET w == fs_key_write_parts(<< Write(t, KeyPart(buf, off), buf) >>,
                              x.wfail, pt)
  IN
  [sw |-> IF w.failed THEN x.werr ELSE S_RET_OK, kern |-> "none",
   mbuf |-> buf, parts |-> w.parts, wlog |-> w.wlog, rd |-> rdc]

\* a return of PUT DATA that wrote no key part; k is the function of the
\* file system it called
upload_ret(status, k, buf, pt, rdc) ==
  [sw |-> status, kern |-> k, mbuf |-> buf, parts |-> pt, wlog |-> << >>,
   rd |-> rdc]

\* myeid_upload_ec_key
myeid_upload_ec_key(m, buf, x, pt, rdc) ==
  IF M_P2(m) = 135
    THEN upload_write("KEY_EC_PRIVATE",
                      Put(buf, 3, <<PartCode("KEY_EC_PRIVATE")>>), 3, x, pt,
                      rdc)
  ELSE IF M_P2(m) = 134
    THEN upload_write("KEY_EC_PUBLIC",
                      Put(buf, 3, <<PartCode("KEY_EC_PUBLIC")>>), 3, x, pt,
                      rdc)
  ELSE upload_ret(S0x6985, "none", buf, pt, rdc)

\* variant: the length of a part is not compared with the size of the file
myeid_upload_rsa_key_AnySize(m, buf, x, pt, rdc, size) ==
  LET lc == M_LC(m)
      p2 == M_P2(m)
      odd == lc % 2 = 1 /\ p2 # 129
      m_size == IF odd THEN lc - 1 ELSE lc
      sh == IF odd THEN 1 ELSE 0
      b1 == IF odd THEN Put(buf, 4, <<buf[4], m_size>>) ELSE buf
      b2 == reverse_string(b1, 5 + sh, m_size)
  IN
  IF odd /\ buf[6] # 0 THEN upload_ret(S0x6985, "none", buf, pt, rdc)
  ELSE IF p2 \in {130, 138, 139} THEN upload_ret(S_RET_OK, "none", b1, pt, rdc)
  ELSE IF p2 \notin {128, 129} \cup (131 .. 137)
    THEN upload_ret(S0x6985, "none", b1, pt, rdc)
  ELSE upload_write(PartName(p2), b2, 3 + sh, x, pt, rdc)

\* myeid_upload_rsa_key (built without USE_P_Q_INV); size is the size of
\* the file in bits
myeid_upload_rsa_key(m, buf, x, pt, rdc, size) ==
  LET lc == M_LC(m)
      p2 == M_P2(m)
      odd == lc % 2 = 1 /\ p2 # 129
      m_size == IF odd THEN lc - 1 ELSE lc
      sh == IF odd THEN 1 ELSE 0
      b1 == IF odd THEN Put(buf, 4, <<buf[4], m_size>>) ELSE buf
      test_size == IF p2 \in 131 .. 137 THEN (16 * m_size) % 65536
                   ELSE IF p2 = 128 THEN (8 * m_size) % 65536
                   ELSE size
      b2 == reverse_string(b1, 5 + sh, m_size)
  IN
  IF odd /\ buf[6] # 0 THEN upload_ret(S0x6985, "none", buf, pt, rdc)
  ELSE IF p2 \in {130, 138, 139} THEN upload_ret(S_RET_OK, "none", b1, pt, rdc)
  ELSE IF p2 \notin {128, 129} \cup (131 .. 137)
    THEN upload_ret(S0x6985, "none", b1, pt, rdc)
  ELSE IF size # test_size THEN upload_ret(S0x6985, "none", b1, pt, rdc)
  ELSE upload_write(PartName(p2), b2, 3 + sh, x, pt, rdc)

\* myeid_upload_keys
myeid_upload_keys(m, buf, x, f, pt, rdc) ==
  LET k_size == fs_get_file_size(f)
      type == fs_get_file_type(f)
  IN
  IF k_size = 0 THEN upload_ret(S0x6a82, "none", buf, pt, rdc)
  ELSE IF type = 25 THEN
    IF k_size \notin {56, 64, 128, 192}
      THEN upload_ret(S0x6700, "none", buf, pt, rdc)
    ELSE upload_write(PartName(M_P2(m)), buf, 3, x, pt, rdc)
  ELSE IF type = 41 THEN
    IF k_size \notin {128, 192, 256}
      THEN upload_ret(S0x6700, "none", buf, pt, rdc)
    ELSE upload_write(PartName(M_P2(m)), buf, 3, x, pt, rdc)
  ELSE IF ~check_ec_key_file(k_size, type)
    THEN myeid_upload_ec_key(m, buf, x, pt, rdc)
  ELSE IF type = 17 /\ ~check_rsa_key_size(k_size)
    THEN myeid_upload_rsa_key(m, buf, x, pt, rdc, k_size)
  ELSE upload_ret(S0x6981, "none", buf, pt, rdc)

\* myeid_put_data; b is the body of the command, x.ioerr the failure of
\* read_command_data, x.fs the status fs_erase_card or fs_initialize_pin
\* returns
myeid_put_data(m, b, x, f, buf, pt) ==
  LET lc == M_LC(m)
      p2 == M_P2(m)
      rx == IF lc = 0 THEN buf ELSE Put(buf, 5, b)
      rdc == IF lc = 0 THEN RD_NONE ELSE IF x.ioerr THEN RD_ERR ELSE RD_OK
  IN
  IF lc # 0 /\ x.ioerr THEN upload_ret(S0x6984, "none", buf, pt, rdc)
  ELSE IF M_P1(m) # 1 THEN upload_ret(S0x6a88, "none", rx, pt, rdc)
  ELSE IF p2 = 224 THEN
    IF lc # 8 THEN upload_ret(S0x6700, "none", rx, pt, rdc)
    ELSE upload_ret(x.fs, "fs_erase_card", rx,
                    IF x.fs = S_RET_OK THEN NoParts ELSE pt, rdc)
  ELSE IF p2 > 0 /\ p2 < 15 THEN
    IF lc < 16 \/ lc > 16 + 7 + 24
      THEN upload_ret(S0x6700, "none", rx, pt, rdc)
    ELSE upload_ret(x.fs, "fs_initialize_pin", rx, pt, rdc)
  ELSE IF (p2 >= 128 /\ p2 <= 139) \/ p2 = 160
    THEN myeid_upload_keys(m, rx, x, f, pt, rdc)
  ELSE upload_ret(S0x6a81, "none", rx, pt, rdc)

\* myeid_activate_applet
myeid_activate_applet(m, b, x, buf, pt) ==
  LET lc == M_LC(m)
      rdc == IF lc = 0 THEN RD_NONE ELSE IF x.ioerr THEN RD_ERR ELSE RD_OK
  IN
  IF lc # 0 /\ x.ioerr THEN upload_ret(S0x6984, "none", buf, pt, rdc)
  ELSE upload_ret(S_RET_OK, "fs_set_lifecycle",
                  IF lc = 0 THEN buf ELSE Put(buf, 5, b), pt, rdc)

----------------------------------------------------------------------------
(* The commands the model sends *)

\* P1, P2 of the MANAGE SECURITY ENVIRONMENT commands of the session
SessP == { <<65, 182>>, <<65, 184>>, <<129, 184>>, <<65, 164>>,
           <<164, 0>>, <<243, 0>>, <<65, 0>>, <<0, 182>> }

\* P1, P2 of the MANAGE SECURITY ENVIRONMENT commands of SpecMse
MseP == { <<65, 182>>, <<65, 184>>, <<129, 184>>, <<65, 164>>,
          <<129, 182>>, <<129, 164>>, <<164, 0>>, <<164, 182>>,
          <<243, 0>>, <<65, 0>>, <<0, 182>> }

\* bodies of the session: [IV] [algorithm] [key file], each optional
SessIv == { << >>, <<135, 0>> }
SessAlgo == { << >>, <<128, 1, 0>>, <<128, 1, 2>>, <<128, 1, 4>>,
              <<128, 1, 127>> }
SessKey == { << >>, <<129, 2, 68, 1>>, <<129, 2, 69, 1>>, <<129, 2, 70, 1>> }
SessBodies == { i \o a \o k : i \in SessIv, a \in SessAlgo, k \in SessKey }

\* the session sends the IV object with the confidentiality template only
SessBodiesOf(m) ==
  { b \in SessBodies : Len(b) = M_LC(m)
                    /\ (M_P2(m) = 184 \/ Len(b) = 0 \/ b[1] # 135) }

\* the bytes behind a body that the CRDO loop does not run into
Zeros == <<0, 0, 0>>

MseHeaders ==
  { h \in { <<0, INS_MSE, p[1], p[2], Len(b)>> : p \in SessP,
                                                  b \in SessBodies } :
      SessBodiesOf(h) # {} }

\* P1, P2 and LC of the PERFORM SECURITY OPERATION commands
PsoP == { <<158, 154>>, <<128, 132>>, <<128, 134>>, <<132, 128>>,
          <<132, 0>>, <<0, 0>> }
PsoLc == {0, 2, 16, 64}
PsoHeaders ==
  { <<c, INS_PSO, p[1], p[2], lc>> : c \in {0, 128}, p \in PsoP, lc \in PsoLc }

GaHeaders ==
  { <<0, INS_GA, p[1], p[2], lc>> : p \in { <<0, 0>>, <<1, 0>>, <<0, 1>> },
                                    lc \in {0, 2, 53} }

Headers == MseHeaders \cup PsoHeaders \cup GaHeaders

\* what a handler can meet outside the header
NoX == [ioerr |-> FALSE, ind |-> 0, b0 |-> 0, kfail |-> FALSE, zr |-> FALSE,
        zs |-> FALSE, hd |-> TRUE, sep |-> 10, tlen |-> -1]

XSign == { [NoX EXCEPT !.ioerr = io, !.kfail = kf, !.zr = z[1], !.zs = z[2]] :
           io \in BOOLEAN, kf \in BOOLEAN,
           z \in { <<FALSE, FALSE>>, <<TRUE, TRUE>> } }

XDecrypt == { [NoX EXCEPT !.ioerr = io, !.kfail = kf, !.ind = i, !.b0 = c,
                          !.hd = h[1], !.sep = h[2]] :
              io \in BOOLEAN, kf \in BOOLEAN, i \in {0, 129, 130, 1},
              c \in {0, 128},
              h \in { <<TRUE, 10>>, <<TRUE, 9>>, <<FALSE, 10>> } }

XEncrypt == { [NoX EXCEPT !.ioerr = io] : io \in BOOLEAN }

XGa == { [NoX EXCEPT !.ioerr = io, !.kfail = kf, !.tlen = t] :
         io \in BOOLEAN, kf \in BOOLEAN, t \in {-1, 48, 47} }

XPso(m) ==
  IF M_P1(m) = 158 THEN XSign
  ELSE IF M_P1(m) = 128 THEN XDecrypt
  ELSE XEncrypt

----------------------------------------------------------------------------
(* The session *)

\* the values the .noinit variables can hold at power up
NoInitAlgo == {0, 127}
NoInitKey == {FILE_EC}

NoCrdo == [seen |-> << >>, walked |-> FALSE]

\* values of last: what ran, for a command its INS, P1 and P2
L_BOOT == <<0, 0, 0>>
L_RESET == <<1, 0, 0>>
L_SELECT == <<2, 0, 0>>
L_RX == <<3, 0, 0>>
LastOf(m) == <<M_CMD(m), M_P1(m), M_P2(m)>>

\* power up, security_env_set_reset (0) has been called
Init ==
  /\ sec_env_valid = 0
  /\ sign_algo \in NoInitAlgo
  /\ key_file_id \in NoInitKey
  /\ selected \in FileIds
  /\ r_flag = R_NO_DATA
  /\ r_len = 0
  /\ pc = "idle"
  /\ message = << >>
  /\ body = << >>
  /\ stale = << >>
  /\ last = L_BOOT
  /\ sw = 0
  /\ rd = RD_NONE
  /\ kern = "none"
  /\ crdo = NoCrdo
  /\ mbuf = << >>
  /\ r_data = << >>
  /\ cin = << >>
  /\ kin = << >>
  /\ kret = "none"
  /\ kout = << >>
  /\ part1 = << >>
  /\ kkey = << >>
  /\ parts = NoParts
  /\ wlog = << >>

\* the transport delivers the five header bytes of the next command
Receive ==
  /\ pc = "idle"
  /\ \E h \in Headers : message' = h
  /\ pc' = "cmd"
  /\ sw' = 0
  /\ rd' = RD_NONE
  /\ kern' = "none"
  /\ crdo' = NoCrdo
  /\ last' = L_RX
  /\ UNCHANGED << env, selected, resp, body, stale, bufs, fsv >>

\* variant: the environment is left as it is
Reset_KeepsEnv ==
  /\ pc = "idle"
  /\ last' = L_RESET
  /\ sw' = 0
  /\ rd' = RD_NONE
  /\ kern' = "none"
  /\ crdo' = NoCrdo
  /\ UNCHANGED << env, selected, resp, pc, message, body, stale, bufs, fsv >>

\* security_env_set_reset (0, r)
Reset ==
  /\ pc = "idle"
  /\ sec_env_valid' = 0
  /\ last' = L_RESET
  /\ sw' = 0
  /\ rd' = RD_NONE
  /\ kern' = "none"
  /\ crdo' = NoCrdo
  /\ UNCHANGED << sign_algo, key_file_id, selected, resp, pc, message,
                  body, stale, bufs, fsv >>

\* another file gets selected (done by the file system, between commands)
SelectFile ==
  /\ pc = "idle"
  /\ \E f \in FileIds : f # selected /\ selected' = f
  /\ last' = L_SELECT
  /\ sw' = 0
  /\ rd' = RD_NONE
  /\ kern' = "none"
  /\ crdo' = NoCrdo
  /\ UNCHANGED << env, resp, pc, message, body, stale, bufs, fsv >>

\* the state a finished MANAGE SECURITY ENVIRONMENT leaves
MseDone(o) ==
  /\ sec_env_valid' = o.sec_env_valid
  /\ sign_algo' = o.sign_algo
  /\ key_file_id' = o.key_file_id
  /\ sw' = o.sw
  /\ rd' = o.rd
  /\ kern' = "none"
  /\ last' = LastOf(message)
  /\ UNCHANGED << selected, resp >>

MseCmd ==
  /\ pc = "cmd"
  /\ M_CMD(message) = INS_MSE
  /\ \E b \in SessBodiesOf(message), io \in BOOLEAN :
       /\ MseDone(security_env_set_reset(message, b \o Zeros, io,
                                         sign_algo, key_file_id))
  /\ pc' = "idle"
  /\ message' = << >>
  /\ crdo' = NoCrdo
  /\ UNCHANGED << body, stale, bufs, fsv >>

\* variant: an operation that fails invalidates the environment
OpDone_ClearOnError(o) ==
  /\ r_flag' = o.r_flag
  /\ r_len' = o.r_len
  /\ sw' = o.sw
  /\ rd' = o.rd
  /\ kern' = o.kern
  /\ last' = LastOf(message)
  /\ pc' = "idle"
  /\ message' = << >>
  /\ sec_env_valid' = IF o.sw \in {S_RET_OK, S0x6100} THEN sec_env_valid ELSE 0
  /\ UNCHANGED << sign_algo, key_file_id, selected, body, stale, crdo, bufs, fsv >>

\* variant: an operation that succeeds consumes the environment
OpDone_ClearOnSuccess(o) ==
  /\ r_flag' = o.r_flag
  /\ r_len' = o.r_len
  /\ sw' = o.sw
  /\ rd' = o.rd
  /\ kern' = o.kern
  /\ last' = LastOf(message)
  /\ pc' = "idle"
  /\ message' = << >>
  /\ sec_env_valid' = IF o.sw \in {S_RET_OK, S0x6100} THEN 0 ELSE sec_env_valid
  /\ UNCHANGED << sign_algo, key_file_id, selected, body, stale, crdo, bufs, fsv >>

\* the state a finished operation leaves
OpDone(o) ==
  /\ r_flag' = o.r_flag
  /\ r_len' = o.r_len
  /\ sw' = o.sw
  /\ rd' = o.rd
  /\ kern' = o.kern
  /\ last' = LastOf(message)
  /\ pc' = "idle"
  /\ message' = << >>
  /\ UNCHANGED << env, selected, body, stale, crdo, bufs, fsv >>

PsoCmd ==
  /\ pc = "cmd"
  /\ M_CMD(message) = INS_PSO
  /\ \E x \in XPso(message) :
       OpDone(security_operation(message, x, sign_algo, key_file_id,
                                 sec_env_valid, selected, r_flag, r_len))

GaCmd ==
  /\ pc = "cmd"
  /\ M_CMD(message) = INS_GA
  /\ \E x \in XGa :
       OpDone(myeid_ecdh_derive(message, x, key_file_id, sec_env_valid,
                                selected, r_flag, r_len))

Next == Receive \/ Reset \/ SelectFile \/ MseCmd \/ PsoCmd \/ GaCmd

Spec == Init /\ [][Next]_vars

----------------------------------------------------------------------------
(* security_env_set_reset on one received command *)

\* the CRDOs the bodies are made of
Crdos == { <<128, 1, 0>>, <<128, 1, 4>>, <<128, 1, 127>>, <<128, 2, 2, 0>>,
           <<129, 2, 69, 1>>, <<129, 1, 68>>,
           <<131, 1, 0>>, <<132, 1, 1>>,
           <<135, 0>>, <<133, 0>> }

\* the concatenations of up to n CRDOs
RECURSIVE CrdoSeqs(_)
CrdoSeqs(n) ==
  IF n = 0 THEN { << >> }
  ELSE LET p == CrdoSeqs(n - 1) IN
       p \cup { b \o c : b \in p, c \in Crdos }

\* every algorithm reference, followed by a key file
AlgoSweep == { <<128, 1, v, 129, 2, 69, 1>> : v \in 0 .. 255 }

WalkBodies == CrdoSeqs(MaxCrdo) \cup AlgoSweep

\* bodies cut short: LC ends inside the last CRDO
CutBodies ==
  UNION { { SubSeq(b, 1, n) : n \in 1 .. (Len(b) - 1) } :
          b \in CrdoSeqs(MaxCrdo - 1) }

\* what the buffer can hold behind a body that was cut short
Stales == { Zeros, <<1, 0, 0>>, <<2, 70, 1>> }

\* the security environment before the command
PreEnvs == { <<0, 18, FILE_AES>>, <<SENV_SIGN + SENV_INIT_VECTOR, 127, FILE_AES>>,
             <<SENV_ECDH, 2, FILE_RSA>> }

InitMse ==
  /\ \E e \in PreEnvs :
       /\ sec_env_valid = e[1]
       /\ sign_algo = e[2]
       /\ key_file_id = e[3]
  /\ selected = FILE_RSA
  /\ r_flag = R_NO_DATA
  /\ r_len = 0
  /\ pc = "cmd"
  /\ \/ body \in WalkBodies /\ stale = Zeros
     \/ body \in CutBodies /\ stale \in Stales
  /\ \E p \in MseP : message = <<0, INS_MSE, p[1], p[2], Len(body)>>
  /\ last = L_RX
  /\ sw = 0
  /\ rd = RD_NONE
  /\ kern = "none"
  /\ crdo = NoCrdo
  /\ mbuf = << >>
  /\ r_data = << >>
  /\ cin = << >>
  /\ kin = << >>
  /\ kret = "none"
  /\ kout = << >>
  /\ part1 = << >>
  /\ kkey = << >>
  /\ parts = NoParts
  /\ wlog = << >>

\* the handler runs on the command; the buffer keeps the command
MseApply ==
  /\ pc = "cmd"
  /\ M_CMD(message) = INS_MSE
  /\ \E io \in BOOLEAN :
       LET o == security_env_set_reset(message, body \o stale, io,
                                       sign_algo, key_file_id)
       IN /\ MseDone(o)
          /\ crdo' = [seen |-> o.seen, walked |-> o.walked]
          /\ message' = o.m
  /\ pc' = "idle"
  /\ UNCHANGED << body, stale, bufs, fsv >>

NextMse == MseApply

SpecMse == InitMse /\ [][NextMse]_vars

----------------------------------------------------------------------------
(* PERFORM SECURITY OPERATION byte by byte, on RSA and symmetric keys *)

\* the armed environments and selected key files
PsoEnvs ==
  { <<SENV_SIGN, 0, FILE_RSA>>, <<SENV_SIGN, 2, FILE_RSA>>,
    <<SENV_SIGN, 18, FILE_RSA>>, <<SENV_SIGN, 2, FILE_RSA2K>>,
    <<SENV_DECRYPT, 0, FILE_RSA>>, <<SENV_DECRYPT, 2, FILE_RSA>>,
    <<SENV_DECRYPT, 2, FILE_RSA2K>>, <<SENV_DECRYPT, 0, FILE_AES>>,
    <<SENV_DECRYPT, 0, FILE_DES>>, <<SENV_ENCRYPT, 0, FILE_AES>> }

\* sign commands
PsoSignCmds ==
  { <<<<0, INS_PSO, 158, 154, lc>>, Pat(0, lc)>> :
      lc \in {0, 20, 21, 53, 54, 64, 245, 246} }

\* the fragments of a two-part decipher: indicator and length
Frag1 == { <<129, 32>>, <<129, 128>>, <<129, 200>> }
Frag2 == { <<130, 32>>, <<130, 128>> }

\* P2 = 0x86: the indicator in front of the ciphertext
Pso86Cmds ==
  { <<<<0, INS_PSO, 128, 134, g[2] + 1>>, <<g[1]>> \o Pat(g[1], g[2])>> :
      g \in Frag1 \cup Frag2 \cup { <<0, 64>>, <<1, 32>> } }
  \cup { <<<<0, INS_PSO, 128, 134, 17>>, <<0, 128>> \o Pat(0, 15)>> }

\* decipher commands: P2 = 0x84, P2 = 0x86 and another P2
PsoDecryptCmds ==
  { <<<<c[1], INS_PSO, 128, 132, c[2]>>, Pat(0, c[2])>> :
      c \in { <<0, 0>>, <<0, 64>>, <<128, 8>>, <<128, 16>>, <<0, 16>> } }
  \cup Pso86Cmds
  \cup { <<<<0, INS_PSO, 128, 130, 16>>, Pat(0, 16)>> }

PsoEncryptCmds ==
  { <<<<c, INS_PSO, 132, 128, lc>>, Pat(0, lc)>> :
      c \in {0, 128}, lc \in {8, 16} }

PsoCmds == PsoSignCmds \cup PsoDecryptCmds \cup PsoEncryptCmds

\* results of the RSA kernel for a modulus of n bytes: 00 02 PS 00 M with
\* payloads M of 0, 1, 3, n - 11 and n - 10 bytes (the last leaves 7 bytes
\* of PS), a block without the 00 behind PS and a block that starts 00 01
Payload(k) == AsSeq([i \in 1 .. k |-> IF i = 2 THEN 0 ELSE 48 + (i % 64)])
Type2(n, M) == <<0, 2>> \o Fill(n - 3 - Len(M), 85) \o <<0>> \o M
RsaResults(n) ==
  { Type2(n, Payload(k)) : k \in {0, 1, 3, n - 11, n - 10} }
  \cup { <<0, 2>> \o Fill(n - 2, 85), <<0, 1>> \o Fill(n - 2, 85) }

\* what the handler meets outside the buffers: the result of
\* read_command_data, of the RSA kernel (and its value), and the direction
\* of the overlapping memcpy of the payload
\* scalars of n bytes, least significant byte first: the two top bytes
\* are t and u
EcNum(n, t, u) == AsSeq([i \in 1 .. n |-> IF i = n THEN t ELSE IF i = n - 1
                                          THEN u ELSE 1 + (i % 100)])
EcTops == { <<0, 0>>, <<0, 128>>, <<0, 5>>, <<1, 9>>, <<127, 9>>, <<128, 9>>,
            <<255, 9>> }
\* the signatures (R, S) ecdsa_sign leaves
EcSigs(n) ==
  { EcNum(n, a[1], a[2]) \o EcNum(n, b[1], b[2]) : a \in EcTops, b \in EcTops }

XBytes(f, sa) ==
  LET n == 2 * fs_key_read_part(f, "KEY_RSA_p")
      e == IF sa = 4 THEN prepare_ec_param(f) ELSE 0
      none == [ioerr |-> FALSE, kfail |-> FALSE, res |-> << >>,
               back |-> FALSE]
  IN
  { [none EXCEPT !.ioerr = TRUE], [none EXCEPT !.kfail = TRUE] }
  \cup { [none EXCEPT !.res = r, !.back = b] :
           r \in IF e # 0 THEN EcSigs(e)
                 ELSE IF n = 0 THEN { << >> } ELSE RsaResults(n),
           b \in IF n # 0 /\ sa = 2 THEN BOOLEAN ELSE {FALSE} }

\* what the block cipher leaves in place of size bytes
SymOut(size) == AsSeq([i \in 1 .. size |-> 192 + (i % 32)])

\* the response staging a command can meet: nothing staged, the first part
\* of a two-part decipher, a response that is ready
PsoStaged ==
  { <<R_NO_DATA, 0, Fill(BUF_BYTES, 0)>>,
    <<R_RESP_READY, 64, Put(Fill(BUF_BYTES, 0), 0, Fill(64, 119))>> }
  \cup { <<R_TMP, g[2], Put(Fill(BUF_BYTES, 0), 0, Pat(g[1], g[2]))>> :
           g \in Frag1 }

\* the buffer when the handler is entered: the header, then older bytes
Received(h) == Put(Fill(5 + BUF_BYTES, 238), 0, h)

\* a command has arrived, in any armed environment and response staging
InitPso ==
  /\ \E e \in PsoEnvs :
       /\ sec_env_valid = e[1]
       /\ sign_algo = e[2]
       /\ key_file_id = e[3]
       /\ selected = e[3]
  /\ \E g \in PsoStaged :
       /\ r_flag = g[1]
       /\ r_len = g[2]
       /\ r_data = g[3]
       /\ part1 = IF g[1] = R_TMP THEN Take(g[3], 0, g[2]) ELSE << >>
  /\ kkey = << >>
  /\ parts = NoParts
  /\ wlog = << >>
  /\ \E c \in PsoCmds :
       /\ message = c[1]
       /\ body = c[2]
       /\ mbuf = Received(c[1])
  /\ pc = "cmd"
  /\ stale = << >>
  /\ last = L_RX
  /\ sw = 0
  /\ rd = RD_NONE
  /\ kern = "none"
  /\ crdo = NoCrdo
  /\ cin = << >>
  /\ kin = << >>
  /\ kret = "none"
  /\ kout = << >>

\* the top bit of R (k = 1) or S (k = 2) of the signature sig
EcTop(sig, sa, f, k) ==
  /\ sa = 4
  /\ Len(sig) = 2 * prepare_ec_param(f)
  /\ Len(sig) # 0
  /\ sig[k * prepare_ec_param(f)] >= 128

\* security_operation runs on the command
PsoApply ==
  /\ pc = "cmd"
  /\ M_CMD(message) = INS_PSO
  /\ \E y \in XBytes(selected, sign_algo) :
     \E rx \in {Put(mbuf, 5, body)} :
     \E x \in {[NoX EXCEPT
                   !.ioerr = y.ioerr, !.kfail = y.kfail,
                   !.ind = IF Len(body) = 0 THEN 0 ELSE body[1],
                   !.zr = EcTop(y.res, sign_algo, selected, 1),
                   !.zs = EcTop(y.res, sign_algo, selected, 2),
                   !.b0 = decrypt_b0(message, rx, r_data, r_flag, r_len),
                   !.hd = UnpadHead(y.res),
                   !.sep = UnpadSep(y.res, Len(y.res))]} :
     \E o \in {security_operation(message, x, sign_algo, key_file_id,
                                  sec_env_valid, selected, r_flag, r_len)} :
     \E b \in {security_operation_bytes(o, message, body, mbuf, r_data,
                  r_flag, r_len, sign_algo, sec_env_valid, selected,
                  y.kfail, y.res, SymOut(M_LC(message)), y.back)} :
       /\ r_flag' = o.r_flag
       /\ r_len' = o.r_len
       /\ sw' = o.sw
       /\ rd' = o.rd
       /\ kern' = o.kern
       /\ mbuf' = b.mbuf
       /\ r_data' = b.r_data
       /\ cin' = b.cin
       /\ kin' = b.kin
       /\ kret' = IF o.kern = "none" THEN "none"
                  ELSE IF y.kfail THEN "fail" ELSE "ok"
       /\ kout' = IF o.kern \in {"rsa_calculate", "ecdsa_sign"} /\ ~y.kfail
                  THEN y.res
                  ELSE << >>
       /\ part1' = IF o.r_flag = R_TMP /\ o.sw = S_RET_OK
                   THEN Take(rx, 6, M_LC(message) - 1) ELSE part1
       /\ kkey' = b.kkey
  /\ last' = LastOf(message)
  /\ pc' = "idle"
  /\ UNCHANGED << env, selected, message, body, stale, crdo, fsv >>

NextPso == PsoApply

SpecPso == InitPso /\ [][NextPso]_vars

----------------------------------------------------------------------------
(* One encipher or decipher command on each kind of key file *)

SymEnvs ==
  { <<op, 0, f>> : op \in {SENV_DECRYPT, SENV_ENCRYPT},
                   f \in DesFiles \cup {FILE_AES, FILE_RSA, FILE_EC} }

\* the data lengths sent
SymLc == {7, 8, 9, 16, 17, 24}

SymCmds ==
  { <<<<c, INS_PSO, 132, 128, lc>>, Pat(0, lc)>> :
      c \in {0, 128}, lc \in SymLc }
  \cup { <<<<c, INS_PSO, 128, 132, lc>>, Pat(0, lc)>> :
           c \in {0, 128}, lc \in SymLc }

InitSym ==
  /\ \E e \in SymEnvs :
       /\ sec_env_valid = e[1]
       /\ sign_algo = e[2]
       /\ key_file_id = e[3]
       /\ selected = e[3]
  /\ \E g \in PsoStaged :
       /\ r_flag = g[1]
       /\ r_len = g[2]
       /\ r_data = g[3]
       /\ part1 = IF g[1] = R_TMP THEN Take(g[3], 0, g[2]) ELSE << >>
  /\ \E c \in SymCmds :
       /\ message = c[1]
       /\ body = c[2]
       /\ mbuf = Received(c[1])
  /\ pc = "cmd"
  /\ stale = << >>
  /\ last = L_RX
  /\ sw = 0
  /\ rd = RD_NONE
  /\ kern = "none"
  /\ crdo = NoCrdo
  /\ cin = << >>
  /\ kin = << >>
  /\ kret = "none"
  /\ kout = << >>
  /\ kkey = << >>
  /\ parts = NoParts
  /\ wlog = << >>

NextSym == PsoApply

SpecSym == InitSym /\ [][NextSym]_vars

----------------------------------------------------------------------------
(* One sign command in an environment for raw ECDSA *)

EcEnvs == { <<SENV_SIGN, 4, f>> : f \in EcFiles \cup {FILE_RSA} }

EcCmds ==
  { <<<<0, INS_PSO, 158, 154, lc>>, Pat(0, lc)>> : lc \in {20, 32, 66, 80} }

EcStaged ==
  { <<R_NO_DATA, 0, Fill(BUF_BYTES, 0)>>,
    <<R_RESP_READY, 64, Put(Fill(BUF_BYTES, 0), 0, Fill(64, 119))>> }

InitEc ==
  /\ \E e \in EcEnvs :
       /\ sec_env_valid = e[1]
       /\ sign_algo = e[2]
       /\ key_file_id = e[3]
       /\ selected = e[3]
  /\ \E g \in EcStaged :
       /\ r_flag = g[1]
       /\ r_len = g[2]
       /\ r_data = g[3]
  /\ \E c \in EcCmds :
       /\ message = c[1]
       /\ body = c[2]
       /\ mbuf = Received(c[1])
  /\ pc = "cmd"
  /\ stale = << >>
  /\ last = L_RX
  /\ sw = 0
  /\ rd = RD_NONE
  /\ kern = "none"
  /\ crdo = NoCrdo
  /\ cin = << >>
  /\ kin = << >>
  /\ kret = "none"
  /\ kout = << >>
  /\ part1 = << >>
  /\ kkey = << >>
  /\ parts = NoParts
  /\ wlog = << >>

NextEc == PsoApply

SpecEc == InitEc /\ [][NextEc]_vars

----------------------------------------------------------------------------
(* One GENERAL AUTHENTICATE command, byte by byte *)

GaEnvs == { <<SENV_ECDH, 0, f>> : f \in {FILE_EC, FILE_EC256, FILE_RSA} }

\* an uncompressed point of n-byte coordinates: 04 X Y
GaPoint(n) == <<4>> \o Pat(16, n) \o Pat(80, n)

\* a body of 255 bytes that is no template; as old content of r->data it
\* reads 80 81 CC behind a body of four bytes and 85 31 04 at offset 209
GaOld ==
  Put(Put(Fill(255, 51), 4, <<204>>), 209, <<133, 49, 4>>)

GaBodies ==
  LET P == GaPoint(24)
      Q == GaPoint(32)
  IN
  { <<124, 51, 133, 49>> \o P,
    <<124, 54, 128, 1, 170, 133, 49>> \o P,
    <<124, 129, 51, 133, 49>> \o P,
    <<124, 52, 133, 129, 49>> \o P,
    <<124, 67, 133, 65>> \o Q,
    <<125, 51, 133, 49>> \o P,
    <<124, 51, 134, 49>> \o P,
    <<124, 50, 133, 49>> \o P,
    <<124, 53, 133, 49>> \o P \o <<128, 0>>,
    <<124, 51, 133, 49, 5>> \o Tail(P),
    <<124, 130, 0, 51, 133, 49>> \o P,
    <<124, 3, 128, 1, 170>>,
    <<124, 2, 128, 129>>,
    <<124, 0>>,
    GaOld }

GaCmds ==
  { <<<<0, INS_GA, 0, 0, Len(b)>>, b>> : b \in GaBodies }
  \cup { <<<<0, INS_GA, p[1], p[2], 53>>, <<124, 51, 133, 49>> \o GaPoint(24)>> :
           p \in { <<1, 0>>, <<0, 1>> } }
  \cup { <<<<0, INS_GA, 0, 0, 0>>, << >> >> }

\* what the handler meets outside the buffers: the result of
\* read_command_data, of ec_derive_key (and its value), and the bytes behind
\* r->data
XGaBytes(f) ==
  LET n == prepare_ec_param(f)
      none == [ioerr |-> FALSE, kfail |-> FALSE, dk |-> << >>, oob |-> 0]
  IN
  { [none EXCEPT !.ioerr = TRUE] }
  \cup { [none EXCEPT !.kfail = kf, !.oob = b, !.dk = EcNum(n, 7, 9)] :
           kf \in BOOLEAN, b \in {0, 255} }

\* what r->data holds when the command arrives: nothing, a response that
\* is ready, the body of an earlier GENERAL AUTHENTICATE (which the handler
\* copies there before it looks at it)
GaStaged ==
  { <<R_NO_DATA, 0, Fill(BUF_BYTES, 0)>>,
    <<R_RESP_READY, 64, Put(Fill(BUF_BYTES, 0), 0, Fill(64, 119))>>,
    <<R_NO_DATA, 0, Put(Fill(BUF_BYTES, 0), 0, GaOld)>> }

\* a command has arrived, in an environment for key agreement
InitGa ==
  /\ \E e \in GaEnvs :
       /\ sec_env_valid = e[1]
       /\ sign_algo = e[2]
       /\ key_file_id = e[3]
       /\ selected = e[3]
  /\ \E g \in GaStaged :
       /\ r_flag = g[1]
       /\ r_len = g[2]
       /\ r_data = g[3]
  /\ \E c \in GaCmds :
       /\ message = c[1]
       /\ body = c[2]
       /\ mbuf = Received(c[1])
  /\ pc = "cmd"
  /\ stale = << >>
  /\ last = L_RX
  /\ sw = 0
  /\ rd = RD_NONE
  /\ kern = "none"
  /\ crdo = NoCrdo
  /\ cin = << >>
  /\ kin = << >>
  /\ kret = "none"
  /\ kout = << >>
  /\ part1 = << >>
  /\ kkey = << >>
  /\ parts = NoParts
  /\ wlog = << >>

\* myeid_ecdh_derive runs on the command
GaApply ==
  /\ pc = "cmd"
  /\ M_CMD(message) = INS_GA
  /\ \E y \in XGaBytes(selected) :
       LET q == ecdh_template(Put(r_data, 0, body), M_LC(message), y.oob)
           x == [NoX EXCEPT
                   !.ioerr = y.ioerr, !.kfail = y.kfail,
                   !.tlen = IF M_LC(message) >= 3 /\ q.ok THEN q.tlen ELSE -1]
           o == myeid_ecdh_derive(message, x, key_file_id, sec_env_valid,
                                  selected, r_flag, r_len)
           b == ecdh_derive_bytes(o, message, body, mbuf, r_data, selected,
                                  y.oob, y.dk)
       IN
       /\ r_flag' = o.r_flag
       /\ r_len' = o.r_len
       /\ sw' = o.sw
       /\ rd' = o.rd
       /\ kern' = o.kern
       /\ mbuf' = b.mbuf
       /\ r_data' = b.r_data
       /\ cin' = b.cin
       /\ kin' = b.kin
       /\ kret' = IF o.kern = "none" THEN "none"
                  ELSE IF y.kfail THEN "fail" ELSE "ok"
       /\ kout' = IF o.kern # "none" /\ ~y.kfail THEN y.dk ELSE << >>
       /\ kkey' = b.kkey
  /\ last' = LastOf(message)
  /\ pc' = "idle"
  /\ UNCHANGED << env, selected, message, body, stale, crdo, part1, fsv >>

NextGa == GaApply

SpecGa == InitGa /\ [][NextGa]_vars

----------------------------------------------------------------------------
(* One GET DATA command *)

\* the parts the key files of the file system hold
StaticParts(f) ==
  IF f = FILE_RSA THEN
    [NoParts EXCEPT !["KEY_RSA_p"] = Pat(1, 32), !["KEY_RSA_MOD"] = Pat(7, 64),
                    !["KEY_RSA_EXP_PUB"] = <<1, 0, 1>>]
  ELSE IF f = FILE_RSA2K THEN
    [NoParts EXCEPT !["KEY_RSA_p"] = Pat(1, 128),
                    !["KEY_RSA_MOD_p2"] = Pat(7, 128),
                    !["KEY_RSA_MOD_p1"] = Pat(135, 128),
                    !["KEY_RSA_EXP_PUB"] = <<1, 0, 1>>]
  ELSE IF f = FILE_EC THEN
    [NoParts EXCEPT !["KEY_EC_PRIVATE"] = Pat(1, 24),
                    !["KEY_EC_PUBLIC"] = GaPoint(24)]
  ELSE IF f = FILE_EC521 THEN
    [NoParts EXCEPT !["KEY_EC_PRIVATE"] = Pat(1, 66),
                    !["KEY_EC_PUBLIC"] = GaPoint(66)]
  ELSE NoParts

GdFiles == {FILE_RSA, FILE_RSA2K, FILE_EC, FILE_EC521, FILE_AES}

GdCmds == { <<0, INS_GD, p1, p2, 0>> : p1 \in {0, 1, 2}, p2 \in 0 .. 255 }

\* what the file system answers
XGd == { [ok |-> TRUE, n |-> 9, acl |-> 4660],
         [ok |-> FALSE, n |-> 0, acl |-> 4660] }

InitGd ==
  /\ \E f \in GdFiles :
       /\ selected = f
       /\ key_file_id = f
       /\ parts = StaticParts(f)
  /\ sec_env_valid = 0
  /\ sign_algo = 0
  /\ r_flag = R_NO_DATA
  /\ r_len = 0
  /\ r_data = Fill(BUF_BYTES, 0)
  /\ \E c \in GdCmds :
       /\ message = c
       /\ mbuf = Received(c)
  /\ body = << >>
  /\ pc = "cmd"
  /\ stale = << >>
  /\ last = L_RX
  /\ sw = 0
  /\ rd = RD_NONE
  /\ kern = "none"
  /\ crdo = NoCrdo
  /\ cin = << >>
  /\ kin = << >>
  /\ kret = "none"
  /\ kout = << >>
  /\ part1 = << >>
  /\ kkey = << >>
  /\ wlog = << >>

\* myeid_get_data runs on the command
GdApply ==
  /\ pc = "cmd"
  /\ M_CMD(message) = INS_GD
  /\ \E x \in XGd :
       LET o == myeid_get_data(message, x, selected, parts, r_data, r_flag,
                               r_len)
       IN
       /\ r_flag' = o.r_flag
       /\ r_len' = o.r_len
       /\ r_data' = o.r_data
       /\ sw' = o.sw
       /\ kern' = o.kern
       /\ kin' = o.kin
       /\ kret' = IF o.kern = "none" THEN "none"
                  ELSE IF x.ok THEN "ok" ELSE "fail"
  /\ last' = LastOf(message)
  /\ pc' = "idle"
  /\ UNCHANGED << env, selected, message, body, stale, crdo, rd, mbuf, cin,
                  kout, part1, kkey, fsv >>

NextGd == GdApply

SpecGd == InitGd /\ [][NextGd]_vars

----------------------------------------------------------------------------
(* GENERATE KEY on a key file, followed by GET DATA *)

\* the body that asks for the public exponent 65537, with tag t
GkExp(t) == <<48, 5, t, 3, 1, 0, 1>>

\* GkExp(129) with byte i replaced
GkOff(i, v) == [GkExp(129) EXCEPT ![i] = v]

GkBodies ==
  { << >>, GkExp(129), GkExp(2), GkExp(3), <<48, 5, 129, 3, 1, 0>>,
    GkExp(129) \o <<0>>, <<48, 3, 2, 1, 3>> }
  \cup { GkOff(i, 0) : i \in {1, 2, 4, 5, 7} }
  \cup { GkOff(6, 1) }

GkCmds ==
  { <<<<0, INS_GK, 0, 0, Len(b)>>, b>> : b \in GkBodies }
  \cup { <<<<0, INS_GK, p[1], p[2], Len(b)>>, b>> :
           p \in { <<1, 0>>, <<0, 1>>, <<0, 128>> },
           b \in { << >>, GkExp(129) } }

\* what GENERATE KEY can meet: the transport fails, the kernel fails, one
\* of the calls of fs_key_write_part fails
XGk ==
  { [ioerr |-> io, kfail |-> kf, wfail |-> w, werr |-> S0x6a81] :
      io \in BOOLEAN, kf \in BOOLEAN, w \in 0 .. 8 }

\* P2 of the GET DATA commands that read a key back
GkReads == {0, 1, 2, 134}

\* power up, then the selection of a key file that holds no key yet
InitGk ==
  /\ \E f \in GenFiles :
       /\ selected = f
       /\ key_file_id = f
  /\ sec_env_valid = 0
  /\ sign_algo = 0
  /\ r_flag = R_NO_DATA
  /\ r_len = 0
  /\ r_data = Fill(BUF_BYTES, 0)
  /\ pc = "idle"
  /\ message = << >>
  /\ body = << >>
  /\ mbuf = Fill(5 + BUF_BYTES, 0)
  /\ stale = << >>
  /\ last = L_BOOT
  /\ sw = 0
  /\ rd = RD_NONE
  /\ kern = "none"
  /\ crdo = NoCrdo
  /\ cin = << >>
  /\ kin = << >>
  /\ kret = "none"
  /\ kout = << >>
  /\ part1 = << >>
  /\ kkey = << >>
  /\ parts = NoParts
  /\ wlog = << >>

\* the GENERATE KEY command arrives
GkReceive ==
  /\ pc = "idle"
  /\ last = L_BOOT
  /\ \E c \in GkCmds :
       /\ message' = c[1]
       /\ body' = c[2]
       /\ mbuf' = Put(mbuf, 0, c[1])
  /\ pc' = "cmd"
  /\ last' = L_RX
  /\ UNCHANGED << env, selected, resp, r_data, sw, rd, kern, cin, kin, kret,
                  kout, part1, kkey, stale, crdo, fsv >>

\* myeid_generate_key runs on the command
GkApply ==
  /\ pc = "cmd"
  /\ M_CMD(message) = INS_GK
  /\ \E x \in XGk :
       \E o \in {myeid_generate_key(message, body, x, selected, mbuf, r_data,
                                    r_flag, r_len, parts)} :
       /\ r_flag' = o.r_flag
       /\ r_len' = o.r_len
       /\ r_data' = o.r_data
       /\ sw' = o.sw
       /\ rd' = o.rd
       /\ kern' = o.kern
       /\ kret' = IF o.kern \in {"none", "prepare_ec_param"} THEN "none"
                  ELSE IF x.kfail THEN "fail" ELSE "ok"
       /\ kout' = o.kout
       /\ mbuf' = o.mbuf
       /\ parts' = o.parts
       /\ wlog' = o.wlog
  /\ last' = LastOf(message)
  /\ pc' = "idle"
  /\ UNCHANGED << env, selected, message, body, stale, crdo, cin, kin, part1,
                  kkey >>

\* a GET DATA command arrives behind GENERATE KEY
GkRead ==
  /\ pc = "idle"
  /\ last[1] = INS_GK
  /\ \E p2 \in GkReads :
       /\ message' = <<0, INS_GD, 1, p2, 0>>
       /\ mbuf' = Put(mbuf, 0, <<0, INS_GD, 1, p2, 0>>)
  /\ body' = << >>
  /\ pc' = "cmd"
  /\ last' = L_RX
  /\ UNCHANGED << env, selected, resp, r_data, sw, rd, kern, cin, kin, kret,
                  kout, part1, kkey, stale, crdo, fsv >>

NextGk == GkReceive \/ GkApply \/ GkRead \/ GdApply

SpecGk == InitGk /\ [][NextGk]_vars

----------------------------------------------------------------------------
(* One PUT DATA or ACTIVATE APPLET command *)

\* LC of the PUT DATA commands
PdLc == {0, 8, 16, 24, 32, 33, 36, 64, 65, 72, 128, 129, 255}

\* the body of lc bytes that starts with b0
PdBody(lc, b0) == IF lc = 0 THEN << >> ELSE <<b0>> \o Pat(3, lc - 1)

PdCmds ==
  { <<<<0, INS_PD, 1, p2, lc>>, PdBody(lc, b0)>> :
      p2 \in PartCodes, lc \in PdLc, b0 \in {0, 7} }
  \cup { <<<<0, INS_PD, p[1], p[2], lc>>, PdBody(lc, 0)>> :
           p \in { <<1, 224>>, <<1, 1>>, <<1, 14>>, <<1, 15>>, <<1, 0>>,
                   <<1, 140>>, <<1, 127>>, <<0, 131>>, <<2, 128>> },
           lc \in {0, 8, 16, 64} }
  \cup { <<<<0, INS_AA, 0, 0, lc>>, PdBody(lc, 0)>> : lc \in {0, 8} }

\* what PUT DATA can meet: the transport fails, the write of the part
\* fails, the file system refuses
XPd ==
  { [ioerr |-> io, wfail |-> w, werr |-> S0x6a81, fs |-> st] :
      io \in BOOLEAN, w \in {0, 1}, st \in {S_RET_OK, S0x6985} }

\* a security environment is armed or not, a key file is selected and a
\* command has arrived
InitPd ==
  /\ \E f \in GenFiles :
       /\ selected = f
       /\ \E e \in { <<0, 0, 0>>, <<SENV_SIGN, 2, f>>,
                     <<SENV_DECRYPT, 0, FILE_RSA>> } :
            /\ sec_env_valid = e[1]
            /\ sign_algo = e[2]
            /\ key_file_id = e[3]
  /\ r_flag = R_NO_DATA
  /\ r_len = 0
  /\ r_data = Fill(BUF_BYTES, 0)
  /\ \E c \in PdCmds :
       /\ message = c[1]
       /\ body = c[2]
       /\ mbuf = Received(c[1])
  /\ pc = "cmd"
  /\ stale = << >>
  /\ last = L_RX
  /\ sw = 0
  /\ rd = RD_NONE
  /\ kern = "none"
  /\ crdo = NoCrdo
  /\ cin = << >>
  /\ kin = << >>
  /\ kret = "none"
  /\ kout = << >>
  /\ part1 = << >>
  /\ kkey = << >>
  /\ parts = NoParts
  /\ wlog = << >>

\* variant: a key part that was written invalidates the environment
PdLeaves_DropsEnv(o) ==
  /\ sw' = o.sw
  /\ rd' = o.rd
  /\ kern' = o.kern
  /\ mbuf' = o.mbuf
  /\ parts' = o.parts
  /\ wlog' = o.wlog
  /\ last' = LastOf(message)
  /\ pc' = "idle"
  /\ sec_env_valid' = IF o.wlog # << >> THEN 0 ELSE sec_env_valid
  /\ UNCHANGED << sign_algo, key_file_id, selected, resp, r_data, message,
                  body, stale, crdo, cin, kin, kret, kout, part1, kkey >>

\* what PUT DATA or ACTIVATE APPLET leaves
PdLeaves(o) ==
  /\ sw' = o.sw
  /\ rd' = o.rd
  /\ kern' = o.kern
  /\ mbuf' = o.mbuf
  /\ parts' = o.parts
  /\ wlog' = o.wlog
  /\ last' = LastOf(message)
  /\ pc' = "idle"
  /\ UNCHANGED << env, selected, resp, r_data, message, body, stale, crdo,
                  cin, kin, kret, kout, part1, kkey >>

\* myeid_put_data runs on the command
PdApply ==
  /\ pc = "cmd"
  /\ M_CMD(message) = INS_PD
  /\ \E x \in XPd :
       PdLeaves(myeid_put_data(message, body, x, selected, mbuf, parts))

\* myeid_activate_applet runs on the command
AaApply ==
  /\ pc = "cmd"
  /\ M_CMD(message) = INS_AA
  /\ \E x \in XPd :
       PdLeaves(myeid_activate_applet(message, body, x, mbuf, parts))

NextPd == PdApply \/ AaApply

SpecPd == InitPd /\ [][NextPd]_vars

----------------------------------------------------------------------------
(* A session of all the commands *)

\* the commands of the session: header and body
AllCmds ==
  { <<<<0, INS_MSE, 65, 182, 7>>, <<128, 1, 2, 129, 2, 68, 1>>>>,
    <<<<0, INS_MSE, 65, 164, 4>>, <<129, 2, 69, 1>>>>,
    <<<<0, INS_MSE, 65, 182, 3>>, <<128, 1, 127>>>>,
    <<<<0, INS_PSO, 158, 154, 16>>, << >>>>,
    <<<<0, INS_PSO, 128, 134, 64>>, << >>>>,
    <<<<0, INS_GA, 0, 0, 53>>, << >>>>,
    <<<<0, INS_GK, 0, 0, 0>>, << >>>>,
    <<<<0, INS_GK, 0, 0, 7>>, GkExp(3)>>,
    <<<<0, INS_GD, 1, 1, 0>>, << >>>>,
    <<<<0, INS_GD, 1, 240, 0>>, << >>>>,
    <<<<0, INS_PD, 1, 131, 32>>, PdBody(32, 7)>>,
    <<<<0, INS_PD, 1, 131, 16>>, PdBody(16, 7)>>,
    <<<<0, INS_PD, 1, 224, 8>>, PdBody(8, 0)>>,
    <<<<0, INS_AA, 0, 0, 0>>, << >>>> }

\* power up with a key file selected
InitAll ==
  /\ sec_env_valid = 0
  /\ sign_algo = 0
  /\ key_file_id = 0
  /\ selected \in {FILE_RSA, FILE_EC}
  /\ r_flag = R_NO_DATA
  /\ r_len = 0
  /\ r_data = Fill(BUF_BYTES, 0)
  /\ pc = "idle"
  /\ message = << >>
  /\ body = << >>
  /\ mbuf = Fill(5 + BUF_BYTES, 0)
  /\ stale = << >>
  /\ last = L_BOOT
  /\ sw = 0
  /\ rd = RD_NONE
  /\ kern = "none"
  /\ crdo = NoCrdo
  /\ cin = << >>
  /\ kin = << >>
  /\ kret = "none"
  /\ kout = << >>
  /\ part1 = << >>
  /\ kkey = << >>
  /\ parts = NoParts
  /\ wlog = << >>

\* the transport delivers the next command; the session is followed through
\* its MANAGE SECURITY ENVIRONMENT, PERFORM SECURITY OPERATION and GENERAL
\* AUTHENTICATE commands and the command behind them
AllReceive ==
  /\ pc = "idle"
  /\ last = L_BOOT \/ last[1] \in {INS_MSE, INS_PSO, INS_GA}
  /\ \E c \in AllCmds :
       /\ message' = c[1]
       /\ body' = c[2]
       /\ mbuf' = Received(c[1])
  /\ pc' = "cmd"
  /\ sw' = 0
  /\ rd' = RD_NONE
  /\ kern' = "none"
  /\ crdo' = NoCrdo
  /\ last' = L_RX
  /\ UNCHANGED << env, selected, resp, r_data, stale, cin, kin, kret, kout,
                  part1, kkey, fsv >>

\* security_env_set_reset runs on the command
AllMse ==
  /\ pc = "cmd"
  /\ M_CMD(message) = INS_MSE
  /\ \E io \in BOOLEAN :
       MseDone(security_env_set_reset(message, body \o Zeros, io, sign_algo,
                                      key_file_id))
  /\ pc' = "idle"
  /\ message' = << >>
  /\ crdo' = NoCrdo
  /\ UNCHANGED << body, stale, bufs, fsv >>

NextAll ==
  \/ AllReceive
  \/ AllMse
  \/ PsoCmd
  \/ GaCmd
  \/ GkApply
  \/ GdApply
  \/ PdApply
  \/ AaApply

SpecAll == InitAll /\ [][NextAll]_vars

----------------------------------------------------------------------------
(* A session of decipher commands on an RSA key, byte by byte *)

DecEnvs == { <<SENV_DECRYPT, 2, FILE_RSA>> }

DecCmds ==
  { <<<<0, INS_PSO, 128, 134, g[2] + 1>>, <<g[1]>> \o Pat(g[1], g[2])>> :
      g \in { <<129, 32>>, <<129, 128>>, <<130, 32>>, <<130, 128>>,
              <<0, 64>> } }
  \cup { <<<<0, INS_PSO, 128, 132, 64>>, Pat(0, 64)>> }

\* power up, then a SET for decipher on the selected key file
InitDec ==
  /\ \E e \in DecEnvs :
       /\ sec_env_valid = e[1]
       /\ sign_algo = e[2]
       /\ key_file_id = e[3]
       /\ selected = e[3]
  /\ r_flag = R_NO_DATA
  /\ r_len = 0
  /\ r_data = Fill(BUF_BYTES, 0)
  /\ pc = "idle"
  /\ message = << >>
  /\ body = << >>
  /\ mbuf = Fill(5 + BUF_BYTES, 0)
  /\ stale = << >>
  /\ last = L_BOOT
  /\ sw = 0
  /\ rd = RD_NONE
  /\ kern = "none"
  /\ crdo = NoCrdo
  /\ cin = << >>
  /\ kin = << >>
  /\ kret = "none"
  /\ kout = << >>
  /\ part1 = << >>
  /\ kkey = << >>
  /\ parts = NoParts
  /\ wlog = << >>

\* the next command arrives; the session is followed until a response is
\* staged for the reader
DecReceive ==
  /\ pc = "idle"
  /\ r_flag # R_RESP_READY
  /\ \E c \in DecCmds :
       /\ message' = c[1]
       /\ body' = c[2]
       /\ mbuf' = Received(c[1])
  /\ pc' = "cmd"
  /\ last' = L_RX
  /\ sw' = 0
  /\ rd' = RD_NONE
  /\ kern' = "none"
  /\ cin' = << >>
  /\ kin' = << >>
  /\ kret' = "none"
  /\ kout' = << >>
  /\ kkey' = << >>
  /\ UNCHANGED << env, selected, resp, r_data, part1, stale, crdo, fsv >>

NextDec == DecReceive \/ PsoApply

SpecDec == InitDec /\ [][NextDec]_vars

----------------------------------------------------------------------------
(* Properties of the session *)

\* a status that reports success, with or without response data
IsSuccess(status) == status = S_RET_OK \/ status = S0x6100

\* the operation a command asks for: PSO sign, decipher, encipher and
\* GENERAL AUTHENTICATE; 0 for any other command
Requested(m) ==
  IF M_CMD(m) = INS_GA THEN SENV_ECDH
  ELSE IF M_CMD(m) # INS_PSO THEN 0
  ELSE IF M_P1(m) = 158 /\ M_P2(m) = 154 THEN SENV_SIGN
  ELSE IF M_P1(m) = 128 THEN SENV_DECRYPT
  ELSE IF M_P1(m) = 132 THEN SENV_ENCRYPT
  ELSE 0

\* a handler of an operation is about to run / has just run
OpPending == pc = "cmd" /\ M_CMD(message) \in {INS_PSO, INS_GA}
OpRan == pc = "idle" /\ last[1] \in {INS_PSO, INS_GA}
MseRan == pc = "idle" /\ last[1] = INS_MSE

\* C1: after a MANAGE SECURITY ENVIRONMENT command that returned a status
\* other than success the security environment is invalid.
C1_FailedMseInvalid ==
  (MseRan /\ sw # S_RET_OK) => sec_env_valid = 0

C3_FileMismatch ==
  [][(OpPending /\ selected # key_file_id
        /\ (M_CMD(message) = INS_GA =>
              /\ M_P1(message) = 0 /\ M_P2(message) = 0
              /\ OpOf(sec_env_valid) = SENV_ECDH))
       => /\ sw' = S0x6985
          /\ rd' = RD_NONE
          /\ kern' = "none"
          /\ UNCHANGED resp]_vars

\* an operation with a matching environment was refused for the file alone
C3_Witness ==
  /\ OpRan
  /\ selected # key_file_id
  /\ last[2] = 128
  /\ OpOf(sec_env_valid) = SENV_DECRYPT
  /\ sw = S0x6985

C5_AsStated ==
  (OpRan /\ IsSuccess(sw)) => OpOf(sec_env_valid) = 0

\* C5: an operation that succeeds leaves the security environment as it was
\* before the command, armed for the same operation.
C5_SuccessKeepsEnv ==
  [][(OpPending /\ IsSuccess(sw'))
       => /\ UNCHANGED env
          /\ OpOf(sec_env_valid') = Requested(message)]_vars

\* an operation produced a response and the environment is still armed
C5_Witness ==
  /\ OpRan
  /\ sw = S0x6100
  /\ kern # "none"
  /\ OpOf(sec_env_valid) = Requested(<<0, last[1], last[2], last[3], 0>>)

\* C6: a session reset leaves operation None and returns 0 without reading
\* a command; from then on, as long as no MANAGE SECURITY ENVIRONMENT
\* command has been handled, the environment stays invalid and every
\* operation is refused without a kernel being invoked.
C6_ResetInvalidates ==
  [][/\ last' = L_RESET =>
          (sec_env_valid' = 0 /\ sw' = 0 /\ rd' = RD_NONE /\ kern' = "none")
     /\ (sec_env_valid = 0 /\ sec_env_valid' # 0) =>
          (pc = "cmd" /\ M_CMD(message) = INS_MSE)
     /\ (OpPending /\ sec_env_valid = 0) =>
          (~IsSuccess(sw') /\ kern' = "none")]_vars

\* the reset came after an operation that had produced a response
C6_Witness ==
  /\ last = L_RESET
  /\ r_flag = R_RESP_READY
  /\ sec_env_valid = 0

\* C9: whenever the security environment is valid, sign_algo is one of
\* 0x00, 0x02, 0x12, 0x04, so that a sign that passes the check of the
\* environment never returns 0x6A81.
C9_AlgoOfValidEnv ==
  /\ OpOf(sec_env_valid) # 0 => sign_algo \in {0, 2, 18, 4}
  /\ (OpRan /\ last = <<INS_PSO, 158, 154>>) => sw # S0x6a81

----------------------------------------------------------------------------
(* Properties of security_env_set_reset on one command (SpecMse) *)

\* the bytes behind the header, by C index from the start of the body
B(k) == (body \o stale)[k + 1]

\* the offsets at which data objects start when the body is read as a
\* concatenation of tag, length, value
RECURSIVE ObjectsFrom(_)
ObjectsFrom(k) ==
  IF k >= Len(body) THEN << >>
  ELSE <<k>> \o ObjectsFrom(k + 2 + B(k + 1))

Objects == ObjectsFrom(0)

\* the objects with tag t that start before offset lim
ObjectsOf(t, lim) ==
  { j \in 1 .. Len(Objects) : B(Objects[j]) = t /\ Objects[j] < lim }

Maximum(S) == CHOOSE x \in S : \A y \in S : y <= x
Minimum(S) == CHOOSE x \in S : \A y \in S : x <= y

\* offset of the last object with tag t before offset lim
LastObject(t, lim) == Objects[Maximum(ObjectsOf(t, lim))]

\* some byte of the body is t and the byte behind it is l
HasTagLen(t, l) ==
  \E k \in 0 .. (Len(body) - 1) : B(k) = t /\ B(k + 1) = l

\* a SET: P1 is 0x41, 0x81 or 0xA4
IsSet(m) == M_P1(m) \in {65, 129, 164}

\* a SET whose P1, P2 select an operation
IsKnownSet(m) ==
  M_P1(m) = 164 \/ (M_P1(m) \in {65, 129} /\ M_P2(m) \in {182, 184, 164})

MsePending == pc = "cmd" /\ M_CMD(message) = INS_MSE

OperationOf(p1, p2) ==
  IF p1 = 164 THEN SENV_ECDH
  ELSE IF p2 = 182 THEN SENV_SIGN
  ELSE IF p2 = 184 /\ p1 = 129 THEN SENV_ENCRYPT
  ELSE IF p2 = 184 /\ p1 = 65 THEN SENV_DECRYPT
  ELSE IF p2 = 164 THEN SENV_ECDH
  ELSE 0

\* C8: after a successful SET the operation is the one P1, P2 select (P1 =
\* 0xA4 selects ECDH whatever P2 is), sign_algo is the value of the last
\* object 0x80 and key_file_id is 256 * hi + lo of the last object 0x81;
\* any other P2 gives an error and any other P1 but 0xF3 gives 0x6A81, both
\* with the environment invalid.
C8_LatchedEnv ==
  [][MsePending =>
       LET p1 == M_P1(message)
           p2 == M_P2(message)
           n == Len(body)
       IN
       /\ (IsSet(message) /\ sw' = S_RET_OK) =>
            /\ OperationOf(p1, p2) # 0
            /\ OpOf(sec_env_valid') = OperationOf(p1, p2)
            /\ ObjectsOf(128, n) # {}
            /\ sign_algo' = B(LastObject(128, n) + 2)
            /\ ObjectsOf(129, n) # {}
            /\ key_file_id' = 256 * B(LastObject(129, n) + 2)
                              + B(LastObject(129, n) + 3)
       /\ (p1 \in {65, 129} /\ p2 \notin {182, 184, 164}) =>
            (sw' # S_RET_OK /\ sec_env_valid' = 0)
       /\ p1 \notin {65, 129, 164, 243} =>
            (sw' = S0x6a81 /\ sec_env_valid' = 0)]_vars

\* P1 = 0xA4 sent with the P2 of a signature armed ECDH, and the second of
\* two objects 0x80 gave the algorithm
C8_Witness ==
  /\ MseRan
  /\ sw = S_RET_OK
  /\ sec_env_valid = SENV_ECDH
  /\ body = <<128, 1, 0, 128, 1, 4, 129, 2, 69, 1>>
  /\ sign_algo = 4
  /\ key_file_id = FILE_EC

\* the object at offset o is one the loop refuses
Refused(o) ==
  LET t == B(o)
      l == B(o + 1)
  IN
  IF t = 128 THEN l # 1 \/ B(o + 2) \notin {0, 2, 18, 4}
  ELSE IF t = 129 THEN l # 2
  ELSE IF t \in {131, 132} THEN l # 1 \/ B(o + 2) # 0
  ELSE t # 135

RefusedObjects == { j \in 1 .. Len(Objects) : Refused(Objects[j]) }

\* C10: in a SET with known P1, P2 whose body was read, the first object
\* that is a tag 0x80 with a value outside 0x00, 0x02, 0x12, 0x04 makes the
\* command return 0x6A81, a tag 0x83 or 0x84 that is not length 1, value 0
\* makes it fail, any tag other than 0x80, 0x81, 0x83, 0x84, 0x87 makes it
\* return 0x6A80; sign_algo and key_file_id then hold what the objects
\* before that one gave, or their old values.
C10_RefusedObject ==
  [][(MsePending /\ IsKnownSet(message) /\ rd' # RD_ERR
        /\ RefusedObjects # {})
       => LET o == Objects[Minimum(RefusedObjects)]
              t == B(o)
          IN
          /\ sw' # S_RET_OK
          /\ (t = 128 /\ B(o + 1) = 1) => sw' = S0x6a81
          /\ t \notin {128, 129, 131, 132, 135} => sw' = S0x6a80
          /\ sign_algo' = IF ObjectsOf(128, o) = {} THEN sign_algo
                          ELSE B(LastObject(128, o) + 2)
          /\ key_file_id' = IF ObjectsOf(129, o) = {} THEN key_file_id
                            ELSE 256 * B(LastObject(129, o) + 2)
                                 + B(LastObject(129, o) + 3)]_vars

\* an algorithm 0x7F behind an accepted one was refused and not stored
C10_Witness ==
  /\ MseRan
  /\ body = <<128, 1, 4, 128, 1, 127>>
  /\ crdo.seen = <<128, 128>>
  /\ ~crdo.walked
  /\ sw = S0x6a81
  /\ sign_algo = 4

\* C11: a RESTORE (P1 = 0xF3) returns success when LC = 0 and 0x6A87 when
\* LC is not 0; either way the environment is invalid afterwards, whatever
\* it was, and sign_algo and key_file_id keep their values.
C11_Restore ==
  [][(MsePending /\ M_P1(message) = 243)
       => /\ sw' = (IF M_LC(message) = 0 THEN S_RET_OK ELSE S0x6a87)
          /\ sec_env_valid' = 0
          /\ sign_algo' = sign_algo
          /\ key_file_id' = key_file_id
          /\ rd' = RD_NONE]_vars

\* a RESTORE with a body met an armed environment (the one with sign_algo
\* 0x7F) and left it invalid
C11_Witness ==
  /\ MseRan
  /\ M_P1(message) = 243
  /\ M_LC(message) # 0
  /\ sw = S0x6a87
  /\ sec_env_valid = 0
  /\ sign_algo = 127

----------------------------------------------------------------------------
(* Properties of PERFORM SECURITY OPERATION byte by byte (SpecPso) *)

\* the modulus size of the RSA key in file f, 0 for another file
ModulusOf(f) == 2 * fs_key_read_part(f, "KEY_RSA_p")

PsoPending == pc = "cmd" /\ M_CMD(message) = INS_PSO
PsoRan == pc = "idle" /\ last[1] = INS_PSO

\* a sign command meets an environment for signing with an RSA key
SignPending ==
  /\ PsoPending
  /\ M_P1(message) = 158 /\ M_P2(message) = 154
  /\ OpOf(sec_env_valid) = SENV_SIGN
  /\ sign_algo \in {0, 2, 18}
  /\ selected = key_file_id
  /\ ModulusOf(selected) # 0

\* the input length the algorithm reference asks for
SignLengthOk(sa, lc, n) ==
  \/ sa = 0 /\ lc = n
  \/ sa = 18 /\ lc = 20
  \/ sa = 2 /\ lc + 11 <= n

\* C12: a sign command on an RSA key with LC = 0 returns 0x6700; a body of
\* a length other than the modulus size (sign_algo 0x00), than 20 (0x12) or
\* of more than the modulus size less 11 (0x02) returns 0x6985; in both
\* cases the RSA kernel is not invoked, and it is for every other length.
C12_SignLength ==
  [][SignPending =>
       LET lc == M_LC(message)
           ok == SignLengthOk(sign_algo, lc, ModulusOf(selected))
       IN
       /\ lc = 0 => (sw' = S0x6700 /\ kern' = "none")
       /\ (lc # 0 /\ rd' = RD_OK /\ ~ok) => (sw' = S0x6985 /\ kern' = "none")
       /\ (lc # 0 /\ rd' = RD_OK /\ ok) => kern' = "rsa_calculate"]_vars

\* a DigestInfo one byte too long for the 64 byte modulus was refused
C12_Witness ==
  /\ PsoRan /\ last = <<INS_PSO, 158, 154>>
  /\ OpOf(sec_env_valid) = SENV_SIGN
  /\ sign_algo = 2
  /\ selected = FILE_RSA
  /\ M_LC(message) = 54
  /\ rd = RD_OK
  /\ sw = S0x6985
  /\ kern = "none"

\* the data D the padding is put in front of
SignData(sa, b) == IF sa = 18 THEN PSHA1_prefix \o b ELSE b

\* C13: when a sign command with sign_algo 0x02 or 0x12 gets to the RSA
\* kernel, the block the kernel is given, read from its most significant
\* byte, has the length n of the modulus and is 00 01, n - |D| - 3 (at
\* least 8) bytes FF, 00 and D, D being the body (0x02) or the SHA-1
\* DigestInfo prefix and the body (0x12); when the kernel succeeds the
\* response is ready with length n, 0 standing for 256.
C13_PaddedBlock ==
  [][(SignPending /\ sign_algo \in {2, 18} /\ kern' = "rsa_calculate") =>
       LET n == ModulusOf(selected)
           D == SignData(sign_algo, body)
       IN
       /\ n - Len(D) - 3 >= 8
       /\ Len(kin') = n
       /\ Reverse(kin') = <<0, 1>> \o Fill(n - Len(D) - 3, 255) \o <<0>> \o D
       /\ kret' = "ok" =>
            /\ sw' = S0x6100
            /\ r_flag' = R_RESP_READY
            /\ r_len' = (IF n = 256 THEN 0 ELSE n)]_vars

\* a DigestInfo of 245 bytes was signed with the 256 byte modulus: 8 bytes
\* FF, and the length of the response is reported as 0
C13_Witness ==
  /\ PsoRan /\ last = <<INS_PSO, 158, 154>>
  /\ selected = FILE_RSA2K
  /\ sign_algo = 2
  /\ M_LC(message) = 245
  /\ kret = "ok"
  /\ Len(kin) = 256
  /\ kin[245] = body[1] /\ kin[246] = 0
  /\ kin[247] = 255 /\ kin[254] = 255 /\ kin[255] = 1 /\ kin[256] = 0
  /\ sw = S0x6100
  /\ r_len = 0

\* C14: when the RSA kernel reports a failure during a sign or a decipher
\* command, the first 256 bytes of the message buffer and the 256 bytes of
\* r->data are zero when the command returns, the status is 0x6985 and the
\* command does not mark the response ready.
C14_KernelFailureZeroes ==
  [][(PsoPending /\ kern' = "rsa_calculate" /\ kret' = "fail") =>
       /\ M_P1(message) \in {158, 128}
       /\ \A i \in 1 .. 256 : mbuf'[i] = 0 /\ r_data'[i] = 0
       /\ sw' = S0x6985
       /\ r_flag' \in {r_flag, R_NO_DATA}
       /\ r_flag' = R_RESP_READY => r_flag = R_RESP_READY]_vars

\* the kernel failed on the joined ciphertext of a two-part decipher: the
\* fragments that were in both buffers are gone
C14_Witness ==
  /\ PsoRan /\ last = <<INS_PSO, 128, 134>>
  /\ body[1] = 130
  /\ kret = "fail"
  /\ Len(cin) = 64
  /\ r_data = Fill(BUF_BYTES, 0)
  /\ r_flag = R_NO_DATA
  /\ sw = S0x6985

\* des_aes_cipher returned an error: the key had been read into r->data
SymmetricRefused ==
  /\ fs_key_read_part(selected, "0xA0") # 0
  /\ rd = RD_OK
  /\ sw \in {S0x6700, S0x6981}

\* C15: when a command returns an error after the RSA kernel has run (it
\* failed, or the block it left is refused by the removal of the padding)
\* or after the DES/AES key has been read into r->data, r->data is all zero.
C15_ZeroizedOnError ==
  (PsoRan /\ ~IsSuccess(sw) /\ (kern = "rsa_calculate" \/ SymmetricRefused))
    => r_data = Fill(BUF_BYTES, 0)

\* a decipher command meets an environment for deciphering with an RSA key
DecryptPendingRsa ==
  /\ PsoPending
  /\ M_P1(message) = 128
  /\ OpOf(sec_env_valid) = SENV_DECRYPT
  /\ selected = key_file_id
  /\ ModulusOf(selected) # 0

\* C16: a decipher with sign_algo 0x02 whose RSA result is 00 02, 8 or more
\* bytes that are not zero, 00 and a payload M of any length (0 included)
\* answers M, with response length |M|; any other result gives 0x6985 and
\* no response is marked ready.  With another sign_algo the RSA result is
\* the response, in the size of the modulus.
C16_Unpad ==
  [][(DecryptPendingRsa /\ kret' = "ok") =>
       LET d == kout'
           n == Len(d)
           K == { k \in 3 .. n : d[k] = 0 }
           k == Minimum(K)
           wf == d[1] = 0 /\ d[2] = 2 /\ K # {} /\ k >= 11
       IN
       IF sign_algo = 2 THEN
         IF wf THEN /\ sw' = S0x6100
                    /\ r_flag' = R_RESP_READY
                    /\ r_len' = n - k
                    /\ Take(r_data', 0, n - k) = SubSeq(d, k + 1, n)
         ELSE /\ sw' = S0x6985
              /\ r_flag' \in {r_flag, R_NO_DATA}
       ELSE /\ sw' = S0x6100
            /\ r_flag' = R_RESP_READY
            /\ r_len' = n % 256
            /\ Take(r_data', 0, n) = d]_vars

\* a decipher command with P2 = 0x86 and a body meets an environment for
\* deciphering, on the key file
Decrypt86Pending ==
  /\ PsoPending
  /\ M_P1(message) = 128 /\ M_P2(message) = 134
  /\ M_LC(message) # 0
  /\ OpOf(sec_env_valid) = SENV_DECRYPT
  /\ selected = key_file_id

\* C17: with P2 = 0x86, a body that starts with 0x81 puts the fragment into
\* r->data, sets the flag R_TMP and r->len to the length of the fragment and
\* returns success without a response; a body that starts with 0x82 is
\* refused with 0x6984 when the flag is not R_TMP or when the two lengths
\* exceed 256, and once it met the flag R_TMP the flag is no longer R_TMP;
\* a first byte other than 0x00, 0x81, 0x82 returns 0x6984.
C17_TwoPartOrder ==
  [][(Decrypt86Pending /\ rd' = RD_OK) =>
       LET ind == body[1]
           size == M_LC(message) - 1
       IN
       /\ ind = 129 =>
            /\ sw' = S_RET_OK
            /\ r_flag' = R_TMP
            /\ r_len' = size
            /\ Take(r_data', 0, size) = Tail(body)
            /\ kern' = "none"
       /\ (ind = 130 /\ r_flag # R_TMP) =>
            (sw' = S0x6984 /\ UNCHANGED resp /\ kern' = "none")
       /\ (ind = 130 /\ r_flag = R_TMP) =>
            /\ r_flag' # R_TMP
            /\ r_len + size > 256 => (sw' = S0x6984 /\ kern' = "none")
            /\ r_len + size <= 256 => Len(cin') = r_len + size
       /\ ind \notin {0, 129, 130} =>
            (sw' = S0x6984 /\ UNCHANGED resp /\ kern' = "none")]_vars

\* a second part of 128 bytes met a first part of 200 bytes: refused, and
\* the first part can no longer be used
C17_Witness ==
  /\ PsoRan /\ last = <<INS_PSO, 128, 134>>
  /\ body[1] = 130
  /\ M_LC(message) = 129
  /\ r_len = 200
  /\ Len(part1) = 200
  /\ r_flag = R_NO_DATA
  /\ sw = S0x6984

----------------------------------------------------------------------------
(* Properties of the two-part decipher in a session (SpecDec, Spec) *)

\* C18: when a second part (0x82) is accepted, the ciphertext decipher gets
\* is the fragment of the 0x81 command that set R_TMP followed by the
\* fragment of this command, at most 256 bytes, whatever commands were
\* handled in between while the flag stayed R_TMP.
C18_JoinedCiphertext ==
  [][(Decrypt86Pending /\ body[1] = 130 /\ rd' = RD_OK
        /\ r_flag = R_TMP /\ r_len + M_LC(message) - 1 <= 256)
       => /\ cin' = part1 \o Tail(body)
          /\ Len(cin') <= 256]_vars

\* C19: once a first part has set R_TMP, every next command other than a
\* PERFORM SECURITY OPERATION with P1 = 0x80 and P2 = 0x86 (the only one that
\* can be the matching second part) leaves the flag different from R_TMP,
\* whether it is a MANAGE SECURITY ENVIRONMENT, ends in an error or not.
C19_TmpCleared ==
  [][(pc = "cmd" /\ r_flag = R_TMP
        /\ ~(M_CMD(message) = INS_PSO /\ M_P1(message) = 128
               /\ M_P2(message) = 134))
       => r_flag' # R_TMP]_vars

\* C20: a decipher with P2 = 0x84 hands the decipher operation exactly the
\* LC bytes of the command body, in order, and nothing of the five header
\* bytes, for an RSA key as well as for a DES/AES key.
C20_BodyIsCiphertext ==
  (PsoRan /\ last = <<INS_PSO, 128, 132>> /\ kern # "none") => cin = body

----------------------------------------------------------------------------
(* Properties of the DES and AES operations (SpecPso, SpecSym) *)

\* C21: the block cipher (des_run or aes_run) runs only for a command whose
\* CLA byte is 0x80, in PSO encrypt and in every variant of PSO decrypt;
\* with another CLA byte on a DES/AES key the command answers 0x6A81.
C21_ClaGate ==
  (PsoRan /\ kern \in {"des_run", "aes_run"}) => M_CLASS(message) = 128

\* the command got as far as des_aes_cipher: PSO encrypt, or PSO decrypt
\* with P2 = 0x84 on a key file with a symmetric key, with CLA = 0x80
SymEntered ==
  /\ PsoRan
  /\ rd = RD_OK
  /\ M_CLASS(message) = 128
  /\ \/ /\ M_P1(message) = 132 /\ M_P2(message) = 128
        /\ OpOf(sec_env_valid) = SENV_ENCRYPT
     \/ /\ M_P1(message) = 128 /\ M_P2(message) = 132
        /\ OpOf(sec_env_valid) = SENV_DECRYPT
        /\ fs_key_read_part(selected, "0xA0") # 0

SymType == fs_get_file_type(selected)
SymKsize == fs_key_read_part(selected, "0xA0")

\* C22: with a DES key of 7, 8, 16 or 24 bytes a data length other than 8
\* answers 0x6700, with an AES key a length other than 16 answers 0x6700, and
\* no cipher runs; with the exact block length the response is as long as the
\* block; a file of another type answers 0x6981.
C22_BlockLength ==
  SymEntered =>
    /\ (SymType = 25 /\ SymKsize \in {7, 8, 16, 24} /\ M_LC(message) # 8)
         => (sw = S0x6700 /\ kern = "none")
    /\ (SymType = 41 /\ M_LC(message) # 16)
         => (sw = S0x6700 /\ kern = "none")
    /\ (SymType = 25 /\ SymKsize \in {7, 8, 16, 24} /\ M_LC(message) = 8)
         => (kern = "des_run" /\ r_flag = R_RESP_READY /\ r_len = 8)
    /\ (SymType = 41 /\ M_LC(message) = 16)
         => (kern = "aes_run" /\ r_flag = R_RESP_READY /\ r_len = 16)
    /\ (SymType \notin {25, 41}) => (sw = S0x6981 /\ kern = "none")

C22_Witness ==
  /\ SymEntered
  /\ selected = FILE_DES24
  /\ M_LC(message) = 16
  /\ sw = S0x6700

\* the key in the selected file
SymKey == fs_key_data(selected)

\* C23: the key material des_run gets: for a 16-byte key K1 || K2 the 24
\* bytes K1 || K2 || K1; for a 7-byte key 8 bytes (single DES); for 8 and 24
\* bytes the key as read; any other key length answers 0x6981.
C23_DesKey ==
  (SymEntered /\ SymType = 25) =>
    /\ (SymKsize = 16 /\ kern = "des_run")
         => kkey = SymKey \o Take(SymKey, 0, 8)
    /\ (SymKsize = 7 /\ kern = "des_run") => Len(kkey) = 8
    /\ (SymKsize \in {8, 24} /\ kern = "des_run") => kkey = SymKey
    /\ (SymKsize \notin {7, 8, 16, 24}) => (sw = S0x6981 /\ kern = "none")

----------------------------------------------------------------------------
(* Properties of the ECDSA response (SpecEc) *)

\* ecdsa_sign succeeded and the response was staged
EcSigned ==
  /\ PsoRan
  /\ kern = "ecdsa_sign"
  /\ kret = "ok"
  /\ r_flag = R_RESP_READY

\* the scalar size of the selected key
EcSize == fs_key_read_part(selected, "KEY_EC_PRIVATE")

\* the number of header bytes of the outer SEQUENCE in the response
DerHead == IF r_data[2] = 129 THEN 3 ELSE 2

\* the INTEGER at offset off of the response: its tag, length and content
DerTag(off) == r_data[off + 1]
DerLen(off) == r_data[off + 2]
DerInt(off) == Take(r_data, off + 2, DerLen(off))

\* a DER INTEGER that is positive and of minimal length
DerMinimal(c) ==
  /\ Len(c) >= 1
  /\ c[1] < 128
  /\ Len(c) > 1 => ~(c[1] = 0 /\ c[2] < 128)

\* big-endian bytes without leading zero bytes
RECURSIVE Strip(_)
Strip(c) == IF Len(c) > 1 /\ c[1] = 0 THEN Strip(Tail(c)) ELSE c

\* C24: the response to an ECDSA signature (r, s) is a DER SEQUENCE of two
\* INTEGERs with the values r and s, each of minimal length: a leading 00
\* iff the high bit of the first magnitude byte is set, no other leading
\* zero byte.
C24_DerMinimal ==
  EcSigned =>
    LET o1 == DerHead
        o2 == DerHead + 2 + DerLen(DerHead)
    IN
    /\ r_data[1] = 48
    /\ DerTag(o1) = 2 /\ DerTag(o2) = 2
    /\ Strip(DerInt(o1)) = Strip(Reverse(Take(kout, 0, EcSize)))
    /\ Strip(DerInt(o2)) = Strip(Reverse(Take(kout, EcSize, EcSize)))
    /\ DerMinimal(DerInt(o1))
    /\ DerMinimal(DerInt(o2))

\* C25: for scalar sizes 24, 32, 48 and 66 the outer length is in the long
\* form 81 LL iff the size is above 60; its value is the number of content
\* bytes, 2n + 4 plus one for each leading 00, below 128 exactly in the short
\* form; the response length is header plus content and fits 8 bits.
C25_OuterLength ==
  EcSigned =>
    LET n == EcSize
        o1 == DerHead
        o2 == DerHead + 2 + DerLen(DerHead)
        pads == (IF kout[n] >= 128 THEN 1 ELSE 0)
                + (IF kout[2 * n] >= 128 THEN 1 ELSE 0)
        ll == r_data[DerHead]
    IN
    /\ n \in {24, 32, 48, 66}
    /\ (DerHead = 3) <=> (n > 60)
    /\ ll = 2 * n + 4 + pads
    /\ ll = 4 + DerLen(o1) + DerLen(o2)
    /\ (ll < 128) <=> (DerHead = 2)
    /\ DerHead + ll < 256
    /\ r_len = DerHead + ll

C25_Witness ==
  /\ EcSigned
  /\ EcSize = 66
  /\ r_data[2] = 129
  /\ r_data[3] = 138
  /\ r_len = 141

----------------------------------------------------------------------------
(* Properties of GENERAL AUTHENTICATE (SpecGa) *)

GaRan == pc = "idle" /\ last[1] = INS_GA

\* the bytes of c from C offset k on
From(c, k) == SubSeq(c, k + 1, Len(c))

\* c is zero or more 0x80 objects followed by one 0x85 object whose value
\* is 04 and 2n bytes
RECURSIVE IsObjects(_, _)
IsObjects(c, n) ==
  /\ Len(c) >= 2
  /\ c[1] \in {128, 133}
  /\ c[2] < 128 \/ (c[2] = 129 /\ Len(c) >= 3)
  /\ LET h == IF c[2] = 129 THEN 3 ELSE 2
         l == IF c[2] = 129 THEN c[3] ELSE c[2]
     IN
     /\ h + l <= Len(c)
     /\ IF c[1] = 133
        THEN h + l = Len(c) /\ l = 2 * n + 1 /\ c[h + 1] = 4
        ELSE IsObjects(From(c, h + l), n)

\* b is a 0x7C template whose declared length is the rest of the body
IsTemplate(b, n) ==
  /\ Len(b) >= 3
  /\ b[1] = 124
  /\ \/ b[2] < 128 /\ b[2] = Len(b) - 2 /\ IsObjects(From(b, 2), n)
     \/ b[2] = 129 /\ b[3] = Len(b) - 3 /\ IsObjects(From(b, 3), n)

\* the command passed the tests of P1, P2, the environment and the selected
\* file, and its body was read
GaEntered ==
  /\ GaRan
  /\ rd = RD_OK
  /\ prepare_ec_param(selected) # 0

\* C26: GENERAL AUTHENTICATE calls the ECDH kernel only for a body that is a
\* 0x7C template with zero or more 0x80 objects and a final 0x85 object of
\* 04 and 2n bytes; the kernel gets (X, Y) as the first and the next n bytes
\* and the response is the n bytes of X'; any other body answers 0x6984
\* without a call of the kernel; P1 or P2 other than 0 answers 0x6A86.
C26_EcdhTemplate ==
  LET n == prepare_ec_param(selected) IN
  /\ (GaRan /\ kern # "none") =>
       /\ IsTemplate(body, n)
       /\ kin = Reverse(SubSeq(body, Len(body) - 2 * n + 1, Len(body) - n))
                \o Reverse(From(body, Len(body) - n))
  /\ (GaRan /\ kret = "ok") =>
       /\ r_flag = R_RESP_READY
       /\ r_len = n
       /\ Take(r_data, 0, n) = Reverse(kout)
  /\ (GaEntered /\ ~IsTemplate(body, n)) => (sw = S0x6984 /\ kern = "none")
  /\ (GaRan /\ (last[2] # 0 \/ last[3] # 0)) => sw = S0x6a86

\* C35: while GENERAL AUTHENTICATE walks a body of 3 .. 255 bytes, the
\* counter of the remaining length never wraps below zero, and every tag,
\* length and value byte that is examined lies within the LC bytes copied
\* from the body.
C35_WalkInBody ==
  [][ (pc = "cmd" /\ M_CMD(message) = INS_GA /\ M_LC(message) >= 3
       /\ rd' = RD_OK)
        => \A oob \in {0, 255} :
             LET w == ecdh_walk(Put(r_data, 0, body), M_LC(message),
                                prepare_ec_param(selected), oob)
             IN ~w.wrap /\ w.top <= M_LC(message) ]_vars

----------------------------------------------------------------------------
(* Properties of GET DATA (SpecGd) *)

GdRan == pc = "idle" /\ last[1] = INS_GD

\* the selectors of GET DATA: 0x00-0x02, 0x81-0x86, 0xA0-0xA6, 0xAA, 0xAC,
\* 0xB0-0xBF
GdSelectors ==
  (0 .. 2) \cup (129 .. 134) \cup (160 .. 166) \cup {170, 172}
  \cup (176 .. 191)

\* C27: GET DATA with P1 other than 1 answers 0x6A88; with P1 = 1 every P2
\* that is no selector answers 0x6A88 without a call of the PIN info or the
\* file listing of the file system; PIN info is given only for P2 in
\* 0xB0 .. 0xBF, for the PIN P2 & 0x0F.
C27_Selectors ==
  GdRan =>
    /\ last[2] # 1 => (sw = S0x6a88 /\ kern = "none")
    /\ (last[2] = 1 /\ last[3] \notin GdSelectors)
         => (sw = S0x6a88 /\ kern = "none")
    /\ kern = "fs_return_pin_info"
         => (last[3] \in 176 .. 191 /\ kin = <<last[3] % 16>>)

----------------------------------------------------------------------------
(* Properties of GENERATE KEY (SpecGk) *)

GkRan == pc = "idle" /\ last[1] = INS_GK
GkType == fs_get_file_type(selected)
GkSize == fs_get_file_size(selected)

\* every key part of an RSA key was written: the public exponent is the
\* last of them
GkRsaDone == parts["KEY_RSA_EXP_PUB"] # << >>

\* the response holds the n bytes of the generated modulus, most
\* significant byte first, and reports n modulo 256 bytes
GkModulus(n) ==
  /\ sw = S0x6100
  /\ r_flag = R_RESP_READY
  /\ r_len = n % 256
  /\ Len(kout) = n
  /\ Take(r_data, 0, n) = Reverse(kout)

\* C28: GENERATE KEY on an RSA file succeeds only on a size of 512 .. 2048
\* bits in steps of 64 and then answers the k/8 bytes of the modulus,
\* big-endian, with length 0 for 2048 bits; a 2048-bit modulus is stored as
\* two parts of 128 bytes; GET DATA P1=01 P2=01 behind it answers the same
\* bytes with the same length.
C28_RoundTrip ==
  /\ (GkRan /\ GkType = 17) => (sw = S0x6100 <=> GkRsaDone)
  /\ (GkRan /\ GkType = 17 /\ sw = S0x6100) =>
       /\ GkSize \in { 64 * i : i \in 8 .. 32 }
       /\ GkModulus(GkSize \div 8)
       /\ GkSize = 2048 =>
            /\ Len(parts["KEY_RSA_MOD_p2"]) = 128
            /\ Len(parts["KEY_RSA_MOD_p1"]) = 128
            /\ parts["KEY_RSA_MOD"] = << >>
  /\ (GdRan /\ last = <<INS_GD, 1, 1>> /\ GkRsaDone) =>
       GkModulus(GkSize \div 8)

\* the modulus of a generated 2048-bit key was read back
C28_Witness ==
  /\ GdRan
  /\ last = <<INS_GD, 1, 1>>
  /\ GkRsaDone
  /\ GkSize = 2048
  /\ sw = S0x6100
  /\ r_len = 0
  /\ Len(kout) = 256

\* the bodies that ask for the public exponent 65537
GkGood == {GkExp(2), GkExp(129)}

\* nothing was generated and nothing written
GkUntouched == kern = "none" /\ wlog = << >> /\ parts = NoParts

\* C29: GENERATE KEY on an RSA file: P1 or P2 other than 0 answers 0x6A86;
\* a body that is not 30 05 T 03 01 00 01 with T = 02 or 81 answers 0x6984;
\* behind an absent or accepted body a size that is no multiple of 64 or is
\* outside 512 .. 2048 answers 0x6981; none of these calls the key
\* generator or writes a key part; the public exponent written is 01 00 01.
C29_RsaRejects ==
  (GkRan /\ GkType = 17) =>
    /\ (last[2] # 0 \/ last[3] # 0) => (sw = S0x6a86 /\ GkUntouched)
    /\ (last[2] = 0 /\ last[3] = 0 /\ body # << >> /\ body \notin GkGood)
         => (sw = S0x6984 /\ GkUntouched)
    /\ (last[2] = 0 /\ last[3] = 0 /\ rd # RD_ERR
        /\ body \in GkGood \cup {<< >>}
        /\ (GkSize % 64 # 0 \/ GkSize < 512 \/ GkSize > 2048))
         => (sw = S0x6981 /\ GkUntouched)
    /\ sw \in {S0x6a86, S0x6984, S0x6981} => GkUntouched
    /\ parts["KEY_RSA_EXP_PUB"] \in { << >>, <<1, 0, 1>> }
    /\ sw = S0x6100 => parts["KEY_RSA_EXP_PUB"] = <<1, 0, 1>>

\* a body with the tag 03 was refused on a file of 1024 bits, and a file
\* of 520 bits was refused behind an accepted body
C29_Witness ==
  /\ GkRan
  /\ GkType = 17
  /\ rd = RD_OK
  /\ \/ (body = GkExp(3) /\ GkSize = 1024 /\ sw = S0x6984)
     \/ (body = GkExp(129) /\ GkSize = 520 /\ sw = S0x6981)

\* the file types and sizes GENERATE KEY takes for an EC key
GkCurves == { <<34, 192>>, <<34, 256>>, <<34, 384>>, <<34, 521>>,
              <<35, 256>> }

\* the public point of n-byte coordinates the kernel generated: 04, X, Y,
\* most significant byte first
GkPoint(n) ==
  <<4>> \o Reverse(Take(kout, 0, n)) \o Reverse(Take(kout, n, n))

\* the response is the TLV of the stored public point with tag 0x86
GkPointTlv ==
  LET pub == parts["KEY_EC_PUBLIC"]
      head == IF Len(pub) > 128 THEN <<134, 129, Len(pub)>>
              ELSE <<134, Len(pub)>>
  IN
  /\ r_flag = R_RESP_READY
  /\ r_len = Len(head) + Len(pub)
  /\ Take(r_data, 0, r_len) = head \o pub

\* C30: GENERATE KEY (P1 = P2 = 0) on a file that is no RSA file: a body
\* answers 0x6985; a pair of file type and size outside (0x22,192),
\* (0x22,256), (0x22,384), (0x22,521), (0x23,256) answers 0x6985; on every
\* pair of these the curve is bound with the scalar size (size+7)/8 and the
\* generator is reached, the private scalar is written before the public
\* point, the public point is written as 04 X Y of 2n+1 bytes, a failed
\* write ends the command with the error of that write, and the response
\* of a success is the stored public point as a TLV with tag 0x86.
C30_EcGenerate ==
  (GkRan /\ GkType # 17 /\ last[2] = 0 /\ last[3] = 0) =>
    LET n == (GkSize + 7) \div 8 IN
    /\ M_LC(message) # 0 => (sw = S0x6985 /\ GkUntouched)
    /\ <<GkType, GkSize>> \notin GkCurves => (sw = S0x6985 /\ GkUntouched)
    /\ (M_LC(message) = 0 /\ <<GkType, GkSize>> \in GkCurves) =>
         /\ kern = "ec_key_gener"
         /\ kret = "ok" => Len(kout) = 2 * n
         /\ wlog \in { << >>, <<"KEY_EC_PRIVATE">>,
                       <<"KEY_EC_PRIVATE", "KEY_EC_PUBLIC">> }
         /\ parts["KEY_EC_PUBLIC"] # << >> =>
              /\ parts["KEY_EC_PUBLIC"] = GkPoint(n)
              /\ Len(parts["KEY_EC_PUBLIC"]) = 2 * n + 1
              /\ Len(parts["KEY_EC_PRIVATE"]) = n
         /\ (wlog = <<"KEY_EC_PRIVATE">>) =>
              (sw = S0x6a81 /\ parts = NoParts /\ r_flag = R_NO_DATA)
         /\ (Len(wlog) = 2 /\ parts["KEY_EC_PUBLIC"] = << >>) =>
              (sw = S0x6a81 /\ r_flag = R_NO_DATA)
         /\ (Len(wlog) = 2 /\ parts["KEY_EC_PUBLIC"] # << >>) =>
              (sw = S0x6100 /\ GkPointTlv)
         /\ sw = S0x6100 => Len(wlog) = 2

\* a key was generated on a P-521 file and its public point of 133 bytes
\* answered behind the long form of the length
C30_Witness ==
  /\ GkRan
  /\ GkType = 34
  /\ GkSize = 521
  /\ sw = S0x6100
  /\ wlog = <<"KEY_EC_PRIVATE", "KEY_EC_PUBLIC">>
  /\ r_len = 136
  /\ Take(r_data, 0, 3) = <<134, 129, 133>>

----------------------------------------------------------------------------
(* Properties of PUT DATA (SpecPd) *)

PdRan == pc = "idle" /\ last[1] = INS_PD

\* PUT DATA for a key part ran on a file that takes an RSA key, and the
\* body arrived
PdRsaUpload ==
  /\ PdRan
  /\ last[2] = 1
  /\ rd # RD_ERR
  /\ GkType = 17
  /\ ~(GkSize % 64 # 0 \/ GkSize < 512 \/ GkSize > 2048)

\* an odd LC whose body does not start with 00
PdOddBad == M_LC(message) % 2 = 1 /\ body[1] # 0

\* the length of the part: LC, or LC - 1 behind a leading 00 of an odd LC
PdLen ==
  IF M_LC(message) % 2 = 1 /\ body[1] = 0 THEN M_LC(message) - 1
  ELSE M_LC(message)

\* the part types sized in units of 16 bits of the modulus
PdSixteenth == 131 .. 137

\* the selected file can hold a DES, AES, EC or RSA key
PdKeyFile ==
  \/ GkType = 25 /\ GkSize \in {56, 64, 128, 192}
  \/ GkType = 41 /\ GkSize \in {128, 192, 256}
  \/ <<GkType, GkSize>> \in GkCurves
  \/ GkType = 17 /\ ~(GkSize % 64 # 0 \/ GkSize < 512 \/ GkSize > 2048)

\* C31: PUT DATA of a key part to an RSA file: p, q, dP, dQ, qInv and the
\* halves of the modulus are written only if 16 * len is the size of the
\* file in bits, the whole modulus only if 8 * len is; len is LC, or LC - 1
\* when LC is odd and the body starts with 00; an odd LC with another first
\* byte answers 0x6985; a mismatch answers 0x6985 and writes nothing; an
\* upload to a file that can hold no key answers an error and writes
\* nothing.
C31_UploadSize ==
  /\ (PdRsaUpload /\ last[3] \in PdSixteenth \cup {128}) =>
       LET unit == IF last[3] = 128 THEN 8 ELSE 16 IN
       /\ PdOddBad => (sw = S0x6985 /\ wlog = << >> /\ parts = NoParts)
       /\ (~PdOddBad /\ unit * PdLen # GkSize)
            => (sw = S0x6985 /\ wlog = << >> /\ parts = NoParts)
       /\ (~PdOddBad /\ unit * PdLen = GkSize)
            => /\ wlog = <<PartName(last[3])>>
               /\ sw # S0x6985
               /\ sw = S_RET_OK =>
                    parts[PartName(last[3])]
                      = Reverse(Take(body, M_LC(message) - PdLen, PdLen))
       /\ wlog # << >> => unit * PdLen = GkSize
  /\ (PdRan /\ last[2] = 1 /\ last[3] \in (128 .. 139) \cup {160}
      /\ ~PdKeyFile) =>
       (sw # S_RET_OK /\ wlog = << >> /\ parts = NoParts)

\* the prime p of a 1024-bit key arrived as 00 and 64 bytes and was written
C31_Witness ==
  /\ PdRsaUpload
  /\ GkSize = 1024
  /\ last = <<INS_PD, 1, 131>>
  /\ M_LC(message) = 65
  /\ body[1] = 0
  /\ sw = S_RET_OK
  /\ Len(parts["KEY_RSA_p"]) = 64

----------------------------------------------------------------------------
(* Properties of the response staging (SpecPso) *)

\* C32: a handler that returns another status than data-ready (0x61xx)
\* does not newly mark the response ready: the flag becomes R_RESP_READY
\* only with that status, and where it was R_RESP_READY before, the length
\* of the response is the one it had.
C32_NoScratchExposed ==
  [][ (pc = "cmd" /\ pc' = "idle" /\ sw' # S0x6100 /\ r_flag' = R_RESP_READY)
        => (r_flag = R_RESP_READY /\ r_len' = r_len) ]_vars

\* a decipher or sign command ended in an error behind the kernel, whose
\* block is in r->data, and the response is not marked ready
C32_Witness ==
  /\ PsoRan
  /\ kret = "ok"
  /\ kout # << >>
  /\ Take(r_data, 0, Len(kout)) = kout
  /\ sw \notin {S0x6100, S_RET_OK}
  /\ r_flag # R_RESP_READY

----------------------------------------------------------------------------
(* Properties of the guard of the kernels (Spec) *)

\* the kernels of PERFORM SECURITY OPERATION and GENERAL AUTHENTICATE
CipherKernels ==
  {"rsa_calculate", "ecdsa_sign", "ec_derive_key", "des_run", "aes_run"}

\* C33: in every sequence of commands PERFORM SECURITY OPERATION and
\* GENERAL AUTHENTICATE invoke a kernel (rsa_calculate, ecdsa_sign,
\* ec_derive_key, des_run, aes_run) only when the operation of the
\* security environment is the one the command asks for and the selected
\* file is key_file_id.
C33_KernelGuard ==
  [][(OpPending /\ kern' \in CipherKernels)
       => /\ Requested(message) # 0
          /\ OpOf(sec_env_valid) = Requested(message)
          /\ selected = key_file_id]_vars

\* a shared secret was derived behind a SET for ECDH on the selected file
C33_Witness ==
  /\ OpRan
  /\ last[1] = INS_GA
  /\ kern = "ec_derive_key"
  /\ OpOf(sec_env_valid) = SENV_ECDH
  /\ selected = key_file_id
  /\ sw = S0x6100

----------------------------------------------------------------------------
(* Properties of the environment under the operations (SpecAll) *)

\* the instructions other than MANAGE SECURITY ENVIRONMENT
OpIns == {INS_PSO, INS_GA, INS_GK, INS_GD, INS_PD, INS_AA}

\* C34: PERFORM SECURITY OPERATION, GENERAL AUTHENTICATE, GENERATE KEY,
\* GET DATA, PUT DATA and ACTIVATE APPLET leave sec_env_valid, sign_algo
\* and key_file_id as they were on every path, success or error, so that
\* the environment a SET armed stays armed for the operations that follow.
C34_EnvFrame ==
  [][ (pc = "cmd" /\ M_CMD(message) \in OpIns) => UNCHANGED env ]_vars

\* behind a SET for signing with the selected RSA key, a part of that key
\* was written by PUT DATA and the environment is still the one of the SET
C34_Witness ==
  /\ last = <<INS_PD, 1, 131>>
  /\ sw = S_RET_OK
  /\ wlog = <<"KEY_RSA_p">>
  /\ selected = FILE_RSA
  /\ env = <<SENV_SIGN, 2, FILE_RSA>>

----------------------------------------------------------------------------
(* Properties of the writes of GENERATE KEY (SpecGk) *)

\* the key parts of an RSA key of size bits, in the order of their writes
RsaOrder(size) ==
  <<"KEY_RSA_p", "KEY_RSA_q", "KEY_RSA_dP", "KEY_RSA_dQ", "KEY_RSA_qInv">>
  \o (IF size = 2048 THEN <<"KEY_RSA_MOD_p2", "KEY_RSA_MOD_p1">>
                      ELSE <<"KEY_RSA_MOD">>)
  \o <<"KEY_RSA_EXP_PUB">>

\* the length of the part t of an RSA key of size bits
RsaPartLen(t, size) ==
  IF t = "KEY_RSA_EXP_PUB" THEN 3
  ELSE IF t = "KEY_RSA_MOD" THEN size \div 8
  ELSE IF t \in {"KEY_RSA_MOD_p1", "KEY_RSA_MOD_p2"} THEN 128
  ELSE size \div 16

\* the key generator ran on an RSA file and gave a key
GkRsaKey == GkRan /\ GkType = 17 /\ kern = "rsa_keygen" /\ kret = "ok"

\* C36: RSA GENERATE KEY writes the parts p, q, dP, dQ, qInv, the modulus
\* (one part of k/8 bytes, two parts of 128 bytes for 2048 bits) and the
\* public exponent in this order and stops at the first write that fails,
\* whose status it returns: on success every part is written; on a failed
\* write exactly the parts before it are written and stay written, and no
\* response is marked ready.
C36_WriteOrder ==
  GkRsaKey =>
    LET O == RsaOrder(GkSize)
        k == Len(wlog)
        held == { t \in PartTypes : parts[t] # << >> }
    IN
    /\ k \in 1 .. Len(O)
    /\ wlog = SubSeq(O, 1, k)
    /\ sw \in {S0x6100, S0x6a81}
    /\ sw = S0x6100 =>
         /\ k = Len(O)
         /\ held = { O[i] : i \in 1 .. k }
         /\ r_flag = R_RESP_READY
    /\ sw = S0x6a81 =>
         /\ held = { O[i] : i \in 1 .. (k - 1) }
         /\ r_flag # R_RESP_READY
    /\ \A t \in held : Len(parts[t]) = RsaPartLen(t, GkSize)

\* the write of the second half of a 2048-bit modulus failed: the five
\* private parts and the first half of the modulus are in the file
C36_Witness ==
  /\ GkRsaKey
  /\ GkSize = 2048
  /\ sw = S0x6a81
  /\ Len(wlog) = 7
  /\ wlog[7] = "KEY_RSA_MOD_p1"
  /\ Len(parts["KEY_RSA_MOD_p2"]) = 128
  /\ parts["KEY_RSA_MOD_p1"] = << >>
  /\ parts["KEY_RSA_p"] # << >>
  /\ r_flag # R_RESP_READY

====
